---- MODULE Spec2Model ----
(***************************************************************************)
(* Model of the API response validator of playwright-pom-project           *)
(* (utils/api-helpers: validateLoginResponse).                             *)
(*                                                                         *)
(* JavaScript values are records [t, n, s]: t is the kind of the value,    *)
(* n the payload of a number or boolean, s the characters of a string.     *)
(* The objects nested in a response are stored flat: response.body holds   *)
(* the properties of the body, response.data those of body.data and        *)
(* response.user those of body.data.user; body.data and data.user hold the *)
(* value found under that key (Obj when it is an object).  A property that *)
(* is not in an object is Absent and reads as undefined.  Inputs are       *)
(* parsed JSON: data and user, where present, are objects or null.         *)
(*                                                                         *)
(* Time is counted in years: a date string is the four digits of a year    *)
(* (an ISO 8601 date JavaScript parses), the clock `now` is a year.        *)
(***************************************************************************)
EXTENDS Integers, Sequences, FiniteSets, TLC

\* ---------------------------------------------------------------- bounds
\* number of fields in which an input differs from the well-formed response
MaxDefects == 2
\* number of clock ticks after the first year
MaxTicks == 2
\* the year the clock starts in
StartYear == 2024
\* the elements a list locator can match
MaxItems == 2
\* the fields a contactData object of a test has
MaxContactFields == 1
\* the calls a test makes in a row on one page
MaxCalls == 3

\* ------------------------------------------------------ JavaScript values
Absent == [t |-> "absent", n |-> 0, s |-> <<>>]
Null == [t |-> "null", n |-> 0, s |-> <<>>]
True == [t |-> "boolean", n |-> 1, s |-> <<>>]
False == [t |-> "boolean", n |-> 0, s |-> <<>>]
Obj == [t |-> "object", n |-> 0, s |-> <<>>]
Num(k) == [t |-> "number", n |-> k, s |-> <<>>]
Str(cs) == [t |-> "string", n |-> 0, s |-> cs]

\* typeof v
TypeOf(v) ==
  CASE v.t = "absent" -> "undefined"
    [] v.t = "null" -> "object"
    [] OTHER -> v.t

\* ToBoolean(v), the test of `if (v)` and of `v && ...`
Truthy(v) ==
  CASE v.t = "boolean" -> v.n = 1
    [] v.t = "number" -> v.n # 0
    [] v.t = "string" -> v.s # <<>>
    [] v.t = "object" -> TRUE
    [] OTHER -> FALSE

\* field in obj
In(field, obj) == obj[field].t # "absent"

WhiteSpace == {" ", "\t", "\n"}

RECURSIVE TrimStart(_)
TrimStart(cs) ==
  IF cs # <<>> /\ Head(cs) \in WhiteSpace THEN TrimStart(Tail(cs)) ELSE cs

RECURSIVE TrimEnd(_)
TrimEnd(cs) ==
  IF cs # <<>> /\ cs[Len(cs)] \in WhiteSpace
  THEN TrimEnd(SubSeq(cs, 1, Len(cs) - 1))
  ELSE cs

\* String.prototype.trim
Trim(cs) == TrimEnd(TrimStart(cs))

Digits == <<"0", "1", "2", "3", "4", "5", "6", "7", "8", "9">>

IsDigit(c) == \E i \in 1..Len(Digits) : Digits[i] = c

DigitVal(c) == (CHOOSE i \in 1..Len(Digits) : Digits[i] = c) - 1

NaN == [nan |-> TRUE, time |-> 0]
TimeValue(y) == [nan |-> FALSE, time |-> y]

\* Date.parse of a string: the four digits of a year, anything else is NaN
DateParse(cs) ==
  IF Len(cs) = 4 /\ \A i \in 1..4 : IsDigit(cs[i])
  THEN TimeValue(1000 * DigitVal(cs[1]) + 100 * DigitVal(cs[2])
                 + 10 * DigitVal(cs[3]) + DigitVal(cs[4]))
  ELSE NaN

\* new Date(v).getTime(): a string is parsed, any other primitive is
\* converted to a number of milliseconds since the epoch (null -> 0,
\* true -> 1), which for the numbers of the model lies in the year 1970;
\* undefined gives NaN
NewDate(v) ==
  CASE v.t = "string" -> DateParse(v.s)
    [] v.t \in {"number", "boolean", "null"} -> TimeValue(1970)
    [] OTHER -> NaN

\* one entry of errors or warnings: the template of the source with the
\* names of fields filled in, and the values interpolated into it
Msg(text, args) == [text |-> text, args |-> args]

\* --------------------------------------------------- validateLoginResponse
\* the expected status of `response.status !== 200`
ExpectedStatus == 200

\* mutant: the list without its last entry
requiredFieldsWithoutData == <<"success", "message">>

requiredFields == <<"success", "message", "data">>

dataRequiredFields == <<"user", "access_token", "access_token_expire_at">>

userRequiredFields ==
  <<"id", "name", "email", "is_active", "created_at", "updated_at">>

\* const validation = { isValid: true, errors: [], warnings: [] }
NewValidation == [isValid |-> TRUE, errors |-> <<>>, warnings |-> <<>>]

\* validation.isValid = false; validation.errors.push(m)
Fail(validation, m) ==
  [validation EXCEPT !.isValid = FALSE, !.errors = Append(@, m)]

\* validation.errors.push(m), isValid left as it is
PushError(validation, m) == [validation EXCEPT !.errors = Append(@, m)]

\* validation.warnings.push(m)
PushWarning(validation, m) == [validation EXCEPT !.warnings = Append(@, m)]

\* fields.forEach(field => { if (!(field in obj)) { isValid = false;
\*                                                  errors.push(prefix + field) } })
RECURSIVE ForEachMissing(_, _, _, _)
ForEachMissing(validation, fields, obj, prefix) ==
  IF fields = <<>> THEN validation
  ELSE ForEachMissing(
         IF ~In(Head(fields), obj)
         THEN Fail(validation, Msg(prefix \o Head(fields), <<>>))
         ELSE validation,
         Tail(fields), obj, prefix)

\* Check response status
ValidateStatus(validation, response) ==
  IF response.status # ExpectedStatus
  THEN Fail(validation, Msg("Expected status 200, got ${response.status}",
                            <<Num(response.status)>>))
  ELSE validation

\* Validate required fields
ValidateRequiredFields(validation, body) ==
  ForEachMissing(validation, requiredFields, body, "Missing required field: ")

\* mutant: success compared with the string 'true'
ValidateSuccessAsString(validation, body) ==
  IF body.success # Str(<<"t", "r", "u", "e">>)
  THEN Fail(validation, Msg("Expected success to be true, got ${body.success}",
                            <<body.success>>))
  ELSE validation

\* Validate success field: body.success !== true
ValidateSuccess(validation, body) ==
  IF body.success # True
  THEN Fail(validation, Msg("Expected success to be true, got ${body.success}",
                            <<body.success>>))
  ELSE validation

\* mutant: the message is checked only where the body has one
ValidateMessageIfPresent(validation, body) ==
  IF In("message", body)
     /\ (TypeOf(body.message) # "string" \/ Trim(body.message.s) = <<>>)
  THEN Fail(validation, Msg("Message field should be a non-empty string", <<>>))
  ELSE validation

\* Validate message field
ValidateMessage(validation, body) ==
  IF TypeOf(body.message) # "string" \/ Trim(body.message.s) = <<>>
  THEN Fail(validation, Msg("Message field should be a non-empty string", <<>>))
  ELSE validation

\* the required fields of body.data
ValidateDataFields(validation, data) ==
  ForEachMissing(validation, dataRequiredFields, data,
                 "Missing required data field: ")

\* the required fields of body.data.user
ValidateUserFields(validation, user) ==
  ForEachMissing(validation, userRequiredFields, user,
                 "Missing required user field: ")

\* Validate user data types: id
ValidateUserId(validation, user) ==
  IF Truthy(user.id) /\ TypeOf(user.id) # "number"
  THEN PushError(validation, Msg("User ID should be a number", <<>>))
  ELSE validation

\* Validate user data types: email
ValidateUserEmail(validation, user) ==
  IF Truthy(user.email) /\ TypeOf(user.email) # "string"
  THEN PushError(validation, Msg("User email should be a string", <<>>))
  ELSE validation

\* [0, 1, true, false].includes(v)
IsActiveValues == {Num(0), Num(1), True, False}

\* Validate user data types: is_active
ValidateIsActive(validation, user) ==
  IF Truthy(user.is_active) /\ user.is_active \notin IsActiveValues
  THEN PushWarning(validation,
                   Msg("User is_active should be 0, 1, true, or false", <<>>))
  ELSE validation

\* Validate expected user data if provided: email
ValidateExpectedEmail(validation, user, expectedUser) ==
  IF Truthy(expectedUser.email) /\ user.email # expectedUser.email
  THEN PushError(validation,
         Msg("Expected email ${expectedUser.email}, got ${body.data.user.email}",
             <<expectedUser.email, user.email>>))
  ELSE validation

\* Validate expected user data if provided: name
ValidateExpectedName(validation, user, expectedUser) ==
  IF Truthy(expectedUser.name) /\ user.name # expectedUser.name
  THEN PushWarning(validation,
         Msg("Expected name ${expectedUser.name}, got ${body.data.user.name}",
             <<expectedUser.name, user.name>>))
  ELSE validation

\* no expectedUser argument: the default null
NoUser == [given |-> FALSE, email |-> Absent, name |-> Absent]
GivenUser(email, name) == [given |-> TRUE, email |-> email, name |-> name]

\* if (expectedUser) { ... }
ValidateExpectedUser(validation, user, expectedUser) ==
  IF expectedUser.given
  THEN ValidateExpectedName(
         ValidateExpectedEmail(validation, user, expectedUser),
         user, expectedUser)
  ELSE validation

\* Validate user object
ValidateUser(validation, data, user, expectedUser) ==
  IF Truthy(data.user)
  THEN ValidateExpectedUser(
         ValidateIsActive(
           ValidateUserEmail(
             ValidateUserId(
               ValidateUserFields(validation, user), user), user), user),
         user, expectedUser)
  ELSE validation

\* Validate access token
ValidateAccessToken(validation, data) ==
  IF data.access_token.t # "absent" /\ TypeOf(data.access_token) # "string"
  THEN PushWarning(validation, Msg("Access token should be a string", <<>>))
  ELSE validation

\* mutant: expireDate < new Date() in place of <=
ValidateTokenExpirationStrict(validation, data, currentTime) ==
  IF Truthy(data.access_token_expire_at)
  THEN LET expireDate == NewDate(data.access_token_expire_at)
       IN  IF expireDate.nan
           THEN PushError(validation,
                  Msg("Invalid access_token_expire_at date format", <<>>))
           ELSE IF expireDate.time < currentTime
           THEN PushWarning(validation,
                  Msg("Access token appears to be expired", <<>>))
           ELSE validation
  ELSE validation

\* Validate token expiration; currentTime is the value of new Date()
ValidateTokenExpiration(validation, data, currentTime) ==
  IF Truthy(data.access_token_expire_at)
  THEN LET expireDate == NewDate(data.access_token_expire_at)
       IN  IF expireDate.nan
           THEN PushError(validation,
                  Msg("Invalid access_token_expire_at date format", <<>>))
           ELSE IF expireDate.time <= currentTime
           THEN PushWarning(validation,
                  Msg("Access token appears to be expired", <<>>))
           ELSE validation
  ELSE validation

\* Validate data structure
ValidateData(validation, response, expectedUser, currentTime) ==
  IF Truthy(response.body.data)
  THEN ValidateTokenExpiration(
         ValidateAccessToken(
           ValidateUser(
             ValidateDataFields(validation, response.data),
             response.data, response.user, expectedUser),
           response.data),
         response.data, currentTime)
  ELSE validation

validateLoginResponse(response, expectedUser, currentTime) ==
  ValidateData(
    ValidateMessage(
      ValidateSuccess(
        ValidateRequiredFields(
          ValidateStatus(NewValidation, response),
          response.body),
        response.body),
      response.body),
    response, expectedUser, currentTime)

\* ------------------------------------------------------------- the inputs
\* the well-formed login response of the API (tests/login-api.spec.js)
WellFormedResponse ==
  [status |-> 200,
   body |-> [success |-> True, message |-> Str(<<"o", "k">>), data |-> Obj],
   data |-> [user |-> Obj, access_token |-> Str(<<"a", "b", "c">>),
             access_token_expire_at |-> Str(<<"2", "9", "9", "9">>)],
   user |-> [id |-> Num(1), name |-> Str(<<"A", "d", "m", "i", "n">>),
             email |-> Str(<<"a", "@", "x">>), is_active |-> Num(1),
             created_at |-> Str(<<"2", "0", "2", "4">>),
             updated_at |-> Str(<<"2", "0", "2", "4">>)]]

Defect(obj, field, value) == [obj |-> obj, field |-> field, value |-> value]

\* the ways one field of a response departs from the well-formed response
Defects ==
  {Defect("status", "status", Num(401))}
  \cup {Defect("body", "success", v) : v \in {Absent, False}}
  \cup {Defect("body", "message", v) :
          v \in {Absent, Null, Str(<<>>), Str(<<" ">>)}}
  \cup {Defect("body", "data", v) : v \in {Absent, Null}}
  \cup {Defect("data", "user", v) : v \in {Absent, Null}}
  \cup {Defect("data", "access_token", v) : v \in {Absent, Num(5)}}
  \cup {Defect("data", "access_token_expire_at", v) :
          v \in {Absent, Null, Str(<<>>), Str(<<"s", "o", "o", "n">>),
                 Str(<<"2", "0", "2", "5">>)}}
  \cup {Defect("user", "id", v) : v \in {Absent, Null, Num(0), Str(<<"7">>)}}
  \cup {Defect("user", "name", v) :
          v \in {Absent, Str(<<"a", "d", "m", "i", "n">>)}}
  \cup {Defect("user", "email", v) :
          v \in {Absent, Null, Num(5), Str(<<"b", "@", "x">>)}}
  \cup {Defect("user", "is_active", v) :
          v \in {Absent, Null, False, Num(2), Str(<<>>)}}
  \cup {Defect("user", "created_at", Absent)}
  \cup {Defect("user", "updated_at", Absent)}

Apply(r, d) ==
  IF d.obj = "status"
  THEN [r EXCEPT !.status = d.value.n]
  ELSE [r EXCEPT ![d.obj][d.field] = d.value]

\* the responses that differ from the well-formed one in at most k fields
RECURSIVE Within(_)
Within(k) ==
  IF k = 0 THEN {WellFormedResponse}
  ELSE LET S == Within(k - 1)
       IN  S \cup {Apply(r, d) : r \in S, d \in Defects}

Responses == Within(MaxDefects)

\* the expectedUser arguments: none, a record without email and name (the
\* credentials of the tests), and records with an email and a name
ExpectedUsers ==
  {NoUser, GivenUser(Absent, Absent),
   GivenUser(Str(<<"a", "@", "x">>), Str(<<"A", "d", "m", "i", "n">>)),
   GivenUser(Str(<<"b", "@", "x">>), Str(<<"A", "d", "m", "i", "n">>)),
   GivenUser(Str(<<"a", "@", "x">>), Str(<<"a", "d", "m", "i", "n">>))}

\* ------------------------------------------------- the page-object methods
\* The page objects and components are async methods over the browser
\* engine.  A method body is a sequence of statements; the statements that
\* matter are the awaited engine calls, the calls of other methods of `this`,
\* the branches, the try/catch blocks, Promise.race, return and throw.

\* a selector string, written by its key in the selectors table
Selector(key) == Str(<<key>>)

\* expressions
Lit(v) == [e |-> "lit", name |-> "", field |-> "", v |-> v]
Arg(name) == [e |-> "arg", name |-> name, field |-> "", v |-> Absent]
ArgField(name, field) ==
  [e |-> "argfield", name |-> name, field |-> field, v |-> Absent]
Loc(name) == [e |-> "loc", name |-> name, field |-> "", v |-> Absent]
\* this.selectors.key
Sel(key) == [e |-> "sel", name |-> key, field |-> "", v |-> Absent]
\* this.rootSelector
RootSel == [e |-> "root", name |-> "", field |-> "", v |-> Absent]
\* a value computed from locals without the engine: trim, parseInt, an
\* object or array literal
Computed == Lit(Obj)
NoExpr == Lit(Absent)
Ms(k) == Lit(Num(k))

\* the tests of a condition; a condition is the conjunction of its tests
IsTruthy(x) == [x |-> x, test |-> "truthy", pos |-> TRUE, among |-> {}]
IsFalsy(x) == [x |-> x, test |-> "truthy", pos |-> FALSE, among |-> {}]
IsDefined(x) == [x |-> x, test |-> "defined", pos |-> TRUE, among |-> {}]
IsAmong(x, S) ==
  [x |-> x, test |-> "among", pos |-> TRUE, among |-> {Str(<<k>>) : k \in S}]

\* statements
Stmt ==
  [k |-> "", op |-> "", scope |-> "", sel |-> NoExpr, val |-> NoExpr,
   ms |-> NoExpr, into |-> "", name |-> "", args |-> <<>>, cond |-> <<>>,
   body |-> <<>>, els |-> <<>>, kind |-> ""]

\* await this.page.op(...): an engine call on the page
OnPage(op, val, ms, into) ==
  [Stmt EXCEPT !.k = "engine", !.op = op, !.scope = "none", !.val = val,
               !.ms = ms, !.into = into]
\* await this.page.op(selector, ...) and await this.page.locator(selector).op(...)
InPage(op, sel, val, ms, into) ==
  [Stmt EXCEPT !.k = "engine", !.op = op, !.scope = "page", !.sel = sel,
               !.val = val, !.ms = ms, !.into = into]
\* await this.locator(selector).op(...): this.root.locator(selector)
InRoot(op, sel, val, ms, into) ==
  [Stmt EXCEPT !.k = "engine", !.op = op, !.scope = "root", !.sel = sel,
               !.val = val, !.ms = ms, !.into = into]
\* await this.root.op(...): the root element itself
OnRoot(op, ms, into) ==
  [Stmt EXCEPT !.k = "engine", !.op = op, !.scope = "root", !.sel = RootSel,
               !.ms = ms, !.into = into]
\* await this.name(args), its value stored in a local
Call(name, args, into) ==
  [Stmt EXCEPT !.k = "call", !.name = name, !.args = args, !.into = into]
Let(into, val) == [Stmt EXCEPT !.k = "let", !.into = into, !.val = val]
If(cond, body, els) ==
  [Stmt EXCEPT !.k = "if", !.cond = cond, !.body = body, !.els = els]
\* try { body } catch { els }
Try(body, els) == [Stmt EXCEPT !.k = "try", !.body = body, !.els = els]
\* the end of a try block: what is behind it is no longer caught
Catch(els) == [Stmt EXCEPT !.k = "catch", !.els = els]
\* await Promise.race([...]) of waits
Race(members) == [Stmt EXCEPT !.k = "race", !.body = members]
\* a member of a race: a wait for an outcome of the given kind
Wait(kind, st) == [st EXCEPT !.kind = kind]
Return(val) == [Stmt EXCEPT !.k = "return", !.val = val]
Throw(text) == [Stmt EXCEPT !.k = "throw", !.name = text]
\* for (const x of list) { body }, the list held by a local as its length
ForEach(count, body) ==
  [Stmt EXCEPT !.k = "foreach", !.name = count, !.body = body]

\* a method: its parameters, their default values, its body
Method(params, defaults, body) ==
  [params |-> params, defaults |-> defaults, body |-> body]

\* a string taken whole: a URL, a key, a state name
Text(s) == Str(<<s>>)

Visible == Text("visible")

\* ----------------------------------------------------------------- BasePage
\* takeScreenshot as a best-effort capture
BasePage_takeScreenshotSwallowing ==
  Method(<<"name">>, <<Absent>>,
    <<Try(<<OnPage("screenshot", Computed, NoExpr, "")>>, <<>>)>>)

BasePage_takeScreenshot ==
  Method(<<"name">>, <<Absent>>,
    <<OnPage("screenshot", Computed, NoExpr, "")>>)

\* navigateTo with its failures swallowed
BasePage_navigateToSwallowing ==
  Method(<<"url">>, <<Absent>>,
    <<Try(<<OnPage("goto", Arg("url"), NoExpr, ""),
            Call("waitForPageLoad", <<>>, "")>>,
          <<>>)>>)

BasePage_navigateTo ==
  Method(<<"url">>, <<Absent>>,
    <<OnPage("goto", Arg("url"), NoExpr, ""),
      Call("waitForPageLoad", <<>>, "")>>)

\* the probe with the deadline of its wait switched off
BasePage_isElementVisibleUnbounded ==
  Method(<<"selector">>, <<Absent>>,
    <<Try(<<InPage("waitForSelector", Arg("selector"), Lit(Visible),
                   Ms(0), ""),
            Return(Lit(True))>>,
          <<Return(Lit(False))>>)>>)

\* the probe with its catch removed
BasePage_isElementVisibleUncaught ==
  Method(<<"selector">>, <<Absent>>,
    <<InPage("waitForSelector", Arg("selector"), Lit(Visible), Ms(5000), ""),
      Return(Lit(True))>>)

BasePage_isElementVisible ==
  Method(<<"selector">>, <<Absent>>,
    <<Try(<<InPage("waitForSelector", Arg("selector"), Lit(Visible),
                   Ms(5000), ""),
            Return(Lit(True))>>,
          <<Return(Lit(False))>>)>>)

BasePage ==
  [waitForPageLoad |->
     Method(<<"timeout">>, <<Num(30000)>>,
       <<OnPage("waitForLoadState", Lit(Text("networkidle")), Arg("timeout"),
                "")>>),
   takeScreenshot |-> BasePage_takeScreenshot,
   navigateTo |-> BasePage_navigateTo,
   getPageTitle |->
     Method(<<>>, <<>>,
       <<OnPage("title", NoExpr, NoExpr, "result"), Return(Loc("result"))>>),
   getCurrentUrl |->
     Method(<<>>, <<>>,
       <<OnPage("url", NoExpr, NoExpr, "result"), Return(Loc("result"))>>),
   waitForElement |->
     Method(<<"selector", "timeout">>, <<Absent, Num(10000)>>,
       <<InPage("waitForSelector", Arg("selector"), Lit(Visible),
                Arg("timeout"), "")>>),
   isElementVisible |-> BasePage_isElementVisible,
   scrollToElement |->
     Method(<<"selector">>, <<Absent>>,
       <<InPage("scrollIntoViewIfNeeded", Arg("selector"), NoExpr, NoExpr, "")>>),
   wait |->
     Method(<<"milliseconds">>, <<Absent>>,
       <<OnPage("waitForTimeout", Arg("milliseconds"), NoExpr, "")>>)]

\* ------------------------------------------------------------ BaseComponent
BaseComponent_isVisible ==
  Method(<<>>, <<>>,
    <<If(<<IsFalsy(RootSel)>>, <<Return(Lit(True))>>, <<>>),
      Try(<<OnRoot("waitFor", Ms(5000), ""), Return(Lit(True))>>,
          <<Return(Lit(False))>>)>>)

BaseComponent_isElementVisible ==
  Method(<<"selector">>, <<Absent>>,
    <<Try(<<InRoot("waitFor", Arg("selector"), Lit(Visible), Ms(5000), ""),
            Return(Lit(True))>>,
          <<Return(Lit(False))>>)>>)

BaseComponent ==
  [isVisible |-> BaseComponent_isVisible,
   waitForVisible |->
     Method(<<"timeout">>, <<Num(10000)>>,
       <<If(<<IsTruthy(RootSel)>>,
            <<OnRoot("waitFor", Arg("timeout"), "")>>, <<>>)>>),
   click |->
     Method(<<"selector">>, <<Absent>>,
       <<InRoot("click", Arg("selector"), NoExpr, NoExpr, "")>>),
   fill |->
     Method(<<"selector", "text">>, <<Absent, Absent>>,
       <<InRoot("fill", Arg("selector"), Arg("text"), NoExpr, "")>>),
   getText |->
     Method(<<"selector">>, <<Absent>>,
       <<InRoot("textContent", Arg("selector"), NoExpr, NoExpr, "result"),
         Return(Loc("result"))>>),
   isElementVisible |-> BaseComponent_isElementVisible]

\* if (await this.isElementVisible(sel)) { body } else { els }
IfVisible(sel, body, els) ==
  <<Call("isElementVisible", <<sel>>, "visible"),
    If(<<IsTruthy(Loc("visible"))>>, body, els)>>

\* ---------------------------------------------------------------- LoginPage
LoginPage_selectors ==
  {"pageTitle", "pageSubtitle", "loginForm", "emailInput", "passwordInput",
   "loginButton", "errorMessage", "fieldError", "emailError",
   "passwordError", "forgotPasswordLink", "signUpLink", "orDivider",
   "successMessage", "welcomeMessage", "loadingSpinner", "loginContainer",
   "formContainer"}

\* the four waits raced after a login
LoginWaits(ms) ==
  <<Wait("success",
         InPage("waitForSelector", Sel("successMessage"), NoExpr, ms, "")),
    Wait("error",
         InPage("waitForSelector", Sel("errorMessage"), NoExpr, ms, "")),
    Wait("url", OnPage("waitForURL", Lit(Text("**/dashboard")), ms, "")),
    Wait("url", OnPage("waitForURL", Lit(Text("**/home")), ms, ""))>>

\* login with the race outside any try block
LoginPage_loginUncaught ==
  Method(<<"username", "password", "rememberMe">>, <<Absent, Absent, False>>,
    <<Call("fillUsername", <<Arg("username")>>, ""),
      Call("fillPassword", <<Arg("password")>>, ""),
      If(<<IsTruthy(Arg("rememberMe"))>>,
         <<Call("checkRememberMe", <<>>, "")>>, <<>>),
      Call("clickLoginButton", <<>>, ""),
      Race(LoginWaits(Ms(5000)))>>)

LoginPage_login ==
  Method(<<"username", "password", "rememberMe">>, <<Absent, Absent, False>>,
    <<Call("fillUsername", <<Arg("username")>>, ""),
      Call("fillPassword", <<Arg("password")>>, ""),
      If(<<IsTruthy(Arg("rememberMe"))>>,
         <<Call("checkRememberMe", <<>>, "")>>, <<>>),
      Call("clickLoginButton", <<>>, ""),
      Try(<<Race(LoginWaits(Ms(5000)))>>, <<>>)>>)

\* the probe without the read: null whether or not the element is visible
TextOrNullUnread(sel) ==
  IfVisible(sel, <<>>, <<>>) \o <<Return(Lit(Null))>>

\* if (await this.isElementVisible(sel)) return textContent; return null
TextOrNull(sel) ==
  IfVisible(sel,
    <<InPage("textContent", sel, NoExpr, NoExpr, "result"),
      Return(Loc("result"))>>,
    <<>>)
  \o <<Return(Lit(Null))>>

LoginPage ==
  [navigateToLogin |->
     Method(<<>>, <<>>,
       <<Call("navigateTo", <<Lit(Text("/login"))>>, ""),
         Call("waitForPageLoad", <<>>, "")>>),
   isLoginPageLoaded |->
     Method(<<>>, <<>>,
       <<Try(<<Call("waitForElement", <<Sel("loginForm")>>, ""),
               Call("isElementVisible", <<Sel("loginButton")>>, "result"),
               Return(Loc("result"))>>,
             <<Return(Lit(False))>>)>>),
   fillEmail |->
     Method(<<"email">>, <<Absent>>,
       <<Call("waitForElement", <<Sel("emailInput")>>, ""),
         InPage("clear", Sel("emailInput"), NoExpr, NoExpr, ""),
         InPage("fill", Sel("emailInput"), Arg("email"), NoExpr, "")>>),
   fillUsername |->
     Method(<<"username">>, <<Absent>>,
       <<Call("fillEmail", <<Arg("username")>>, "")>>),
   fillPassword |->
     Method(<<"password">>, <<Absent>>,
       <<Call("waitForElement", <<Sel("passwordInput")>>, ""),
         InPage("clear", Sel("passwordInput"), NoExpr, NoExpr, ""),
         InPage("fill", Sel("passwordInput"), Arg("password"), NoExpr, "")>>),
   clickLoginButton |->
     Method(<<>>, <<>>,
       <<Call("waitForElement", <<Sel("loginButton")>>, ""),
         InPage("click", Sel("loginButton"), NoExpr, NoExpr, "")>>),
   login |-> LoginPage_login,
   checkRememberMe |->
     Method(<<"check">>, <<True>>,
       IfVisible(Sel("rememberMeCheckbox"),
         <<InPage("isChecked", Sel("rememberMeCheckbox"), NoExpr, NoExpr,
                  "isChecked"),
           If(<<IsTruthy(Arg("check")), IsFalsy(Loc("isChecked"))>>,
              <<InPage("check", Sel("rememberMeCheckbox"), NoExpr, NoExpr, "")>>,
              <<If(<<IsFalsy(Arg("check")), IsTruthy(Loc("isChecked"))>>,
                   <<InPage("uncheck", Sel("rememberMeCheckbox"), NoExpr,
                            NoExpr, "")>>,
                   <<>>)>>)>>,
         <<>>)),
   clickForgotPassword |->
     Method(<<>>, <<>>,
       <<Call("waitForElement", <<Sel("forgotPasswordLink")>>, ""),
         InPage("click", Sel("forgotPasswordLink"), NoExpr, NoExpr, "")>>),
   clickSignUpLink |->
     Method(<<>>, <<>>,
       IfVisible(Sel("signUpLink"),
         <<InPage("click", Sel("signUpLink"), NoExpr, NoExpr, "")>>, <<>>)),
   getErrorMessage |->
     Method(<<>>, <<>>, TextOrNull(Sel("errorMessage"))),
   getFieldError |->
     Method(<<"field">>, <<Absent>>,
       <<If(<<IsAmong(Arg("field"), {"username", "email"})>>,
            <<Let("errorSelector", Sel("emailError"))>>,
            <<Let("errorSelector", Sel("passwordError"))>>)>>
       \o TextOrNull(Loc("errorSelector"))),
   getSuccessMessage |->
     Method(<<>>, <<>>, TextOrNull(Sel("successMessage"))),
   isLoading |->
     Method(<<>>, <<>>,
       <<Call("isElementVisible", <<Sel("loadingSpinner")>>, "result"),
         Return(Loc("result"))>>),
   waitForLoginResult |->
     Method(<<"timeout">>, <<Num(10000)>>,
       <<Try(<<Race(LoginWaits(Arg("timeout")))>>,
             <<Throw("Login result not received within")>>)>>),
   isLoginSuccessful |->
     Method(<<>>, <<>>,
       <<Call("getCurrentUrl", <<>>, "currentUrl"),
         If(<<IsAmong(Loc("currentUrl"), {"/dashboard", "/home"})>>,
            <<Return(Lit(True))>>, <<>>)>>
       \o IfVisible(Sel("successMessage"), <<Return(Lit(True))>>, <<>>)
       \o IfVisible(Sel("loginForm"), <<>>, <<Return(Lit(True))>>)
       \o <<Return(Lit(False))>>),
   clearForm |->
     Method(<<>>, <<>>,
       <<InPage("clear", Sel("emailInput"), NoExpr, NoExpr, ""),
         InPage("clear", Sel("passwordInput"), NoExpr, NoExpr, "")>>
       \o IfVisible(Sel("rememberMeCheckbox"),
            <<InPage("isChecked", Sel("rememberMeCheckbox"), NoExpr, NoExpr,
                     "isChecked"),
              If(<<IsTruthy(Loc("isChecked"))>>,
                 <<InPage("uncheck", Sel("rememberMeCheckbox"), NoExpr, NoExpr,
                          "")>>,
                 <<>>)>>,
            <<>>)),
   getLoginTitle |->
     Method(<<>>, <<>>,
       IfVisible(Sel("pageTitle"),
         <<InPage("textContent", Sel("pageTitle"), NoExpr, NoExpr, "result"),
           Return(Loc("result"))>>,
         <<>>)
       \o <<Call("getPageTitle", <<>>, "result"), Return(Loc("result"))>>),
   loginWithGoogle |->
     Method(<<>>, <<>>,
       IfVisible(Sel("googleLoginButton"),
         <<InPage("click", Sel("googleLoginButton"), NoExpr, NoExpr, "")>>,
         <<Throw("Google login button not available")>>)),
   loginWithFacebook |->
     Method(<<>>, <<>>,
       IfVisible(Sel("facebookLoginButton"),
         <<InPage("click", Sel("facebookLoginButton"), NoExpr, NoExpr, "")>>,
         <<Throw("Facebook login button not available")>>))]

\* map[x] for an object literal of selectors: undefined for any other key
Pick(x, m) == [e |-> "pick", name |-> "", field |-> "", v |-> Absent,
               x |-> x, m |-> m]

\* waitForElement(sel); locator(sel).clear(); locator(sel).fill(value)
ClearAndFill(sel, value) ==
  <<Call("waitForElement", <<sel>>, ""),
    InPage("clear", sel, NoExpr, NoExpr, ""),
    InPage("fill", sel, value, NoExpr, "")>>

\* a checkbox setter that acts without a look at the state of the checkbox
SetCheckboxUnseen(sel) ==
  IfVisible(sel,
    <<If(<<IsTruthy(Arg("check"))>>,
         <<InPage("check", sel, NoExpr, NoExpr, "")>>,
         <<InPage("uncheck", sel, NoExpr, NoExpr, "")>>)>>,
    <<>>)

\* the body shared by the checkbox setters
SetCheckbox(sel) ==
  IfVisible(sel,
    <<InPage("isChecked", sel, NoExpr, NoExpr, "isChecked"),
      If(<<IsTruthy(Arg("check")), IsFalsy(Loc("isChecked"))>>,
         <<InPage("check", sel, NoExpr, NoExpr, "")>>,
         <<If(<<IsFalsy(Arg("check")), IsTruthy(Loc("isChecked"))>>,
              <<InPage("uncheck", sel, NoExpr, NoExpr, "")>>,
              <<>>)>>)>>,
    <<>>)

\* -------------------------------------------------------------- ContactPage
ContactPage_selectors ==
  {"contactForm", "firstNameInput", "lastNameInput", "emailInput",
   "phoneInput", "subjectInput", "messageTextarea", "submitButton",
   "errorMessage", "successMessage", "fieldError", "firstNameError",
   "lastNameError", "emailError", "phoneError", "subjectError",
   "messageError", "inquiryTypeSelect", "attachmentInput", "privacyCheckbox",
   "newsletterCheckbox", "pageTitle", "pageDescription", "contactInfo",
   "addressSection", "phoneSection", "emailSection", "hoursSection",
   "loadingSpinner", "formStatus", "resetButton", "clearButton"}

\* if (contactData.field) await this.setter(contactData.field)
WhenTruthy(field, setter) ==
  If(<<IsTruthy(ArgField("contactData", field))>>,
     <<Call(setter, <<ArgField("contactData", field)>>, "")>>, <<>>)

\* if (contactData.field !== undefined) await this.setter(contactData.field)
WhenDefined(field, setter) ==
  If(<<IsDefined(ArgField("contactData", field))>>,
     <<Call(setter, <<ArgField("contactData", field)>>, "")>>, <<>>)

\* the setter of each field of contactData and the input it writes to
SetterOf ==
  [firstName |-> "fillFirstName", lastName |-> "fillLastName",
   email |-> "fillEmail", phone |-> "fillPhone", subject |-> "fillSubject",
   message |-> "fillMessage", inquiryType |-> "selectInquiryType",
   attachment |-> "uploadAttachment", acceptPrivacy |-> "checkPrivacyPolicy",
   subscribeNewsletter |-> "checkNewsletter"]

\* fillContactForm on a form it resets first
ContactPage_fillContactFormAfterClear ==
  Method(<<"contactData">>, <<Absent>>,
    <<Call("clearForm", <<>>, ""),
      WhenTruthy("email", SetterOf.email)>>)

ContactPage_fillContactForm ==
  Method(<<"contactData">>, <<Absent>>,
    <<WhenTruthy("firstName", SetterOf.firstName),
      WhenTruthy("lastName", SetterOf.lastName),
      WhenTruthy("email", SetterOf.email),
      WhenTruthy("phone", SetterOf.phone),
      WhenTruthy("subject", SetterOf.subject),
      WhenTruthy("message", SetterOf.message),
      WhenTruthy("inquiryType", SetterOf.inquiryType),
      WhenTruthy("attachment", SetterOf.attachment),
      WhenDefined("acceptPrivacy", SetterOf.acceptPrivacy),
      WhenDefined("subscribeNewsletter", SetterOf.subscribeNewsletter)>>)

\* the waits of a submission with a wait for a change of URL among them
SubmitWaitsWithUrl ==
  <<Wait("success",
         InPage("waitForSelector", Sel("successMessage"), NoExpr, Ms(10000),
                "")),
    Wait("error",
         InPage("waitForSelector", Sel("errorMessage"), NoExpr, Ms(10000),
                "")),
    Wait("url", OnPage("waitForURL", Lit(Text("**/thank-you")), Ms(10000),
                       ""))>>

\* the two waits raced after a submission
SubmitWaits ==
  <<Wait("success",
         InPage("waitForSelector", Sel("successMessage"), NoExpr, Ms(10000),
                "")),
    Wait("error",
         InPage("waitForSelector", Sel("errorMessage"), NoExpr, Ms(10000),
                ""))>>

ContactPage_submitContactForm ==
  Method(<<"contactData">>, <<Absent>>,
    <<Call("fillContactForm", <<Arg("contactData")>>, ""),
      Call("clickSubmit", <<>>, ""),
      Try(<<Race(SubmitWaits)>>, <<>>)>>)

\* if (await this.isElementVisible(sel)) object.field = textContent
ReadIfVisible(sel) ==
  IfVisible(sel, <<InPage("textContent", sel, NoExpr, NoExpr, "text")>>, <<>>)

ContactPage ==
  [navigateToContact |->
     Method(<<>>, <<>>,
       <<Call("navigateTo", <<Lit(Text("/contact"))>>, ""),
         Call("waitForPageLoad", <<>>, "")>>),
   isContactPageLoaded |->
     Method(<<>>, <<>>,
       <<Try(<<Call("waitForElement", <<Sel("contactForm")>>, ""),
               Call("isElementVisible", <<Sel("submitButton")>>, "result"),
               Return(Loc("result"))>>,
             <<Return(Lit(False))>>)>>),
   fillFirstName |->
     Method(<<"firstName">>, <<Absent>>,
       ClearAndFill(Sel("firstNameInput"), Arg("firstName"))),
   fillLastName |->
     Method(<<"lastName">>, <<Absent>>,
       ClearAndFill(Sel("lastNameInput"), Arg("lastName"))),
   fillEmail |->
     Method(<<"email">>, <<Absent>>,
       ClearAndFill(Sel("emailInput"), Arg("email"))),
   fillPhone |->
     Method(<<"phone">>, <<Absent>>,
       IfVisible(Sel("phoneInput"),
         <<InPage("clear", Sel("phoneInput"), NoExpr, NoExpr, ""),
           InPage("fill", Sel("phoneInput"), Arg("phone"), NoExpr, "")>>,
         <<>>)),
   fillSubject |->
     Method(<<"subject">>, <<Absent>>,
       ClearAndFill(Sel("subjectInput"), Arg("subject"))),
   fillMessage |->
     Method(<<"message">>, <<Absent>>,
       ClearAndFill(Sel("messageTextarea"), Arg("message"))),
   selectInquiryType |->
     Method(<<"inquiryType">>, <<Absent>>,
       IfVisible(Sel("inquiryTypeSelect"),
         <<InPage("selectOption", Sel("inquiryTypeSelect"), Arg("inquiryType"),
                  NoExpr, "")>>,
         <<>>)),
   checkPrivacyPolicy |->
     Method(<<"check">>, <<True>>, SetCheckbox(Sel("privacyCheckbox"))),
   checkNewsletter |->
     Method(<<"check">>, <<True>>, SetCheckbox(Sel("newsletterCheckbox"))),
   uploadAttachment |->
     Method(<<"filePath">>, <<Absent>>,
       IfVisible(Sel("attachmentInput"),
         <<InPage("setInputFiles", Sel("attachmentInput"), Arg("filePath"),
                  NoExpr, "")>>,
         <<>>)),
   clickSubmit |->
     Method(<<>>, <<>>,
       <<Call("waitForElement", <<Sel("submitButton")>>, ""),
         InPage("click", Sel("submitButton"), NoExpr, NoExpr, "")>>),
   fillContactForm |-> ContactPage_fillContactForm,
   submitContactForm |-> ContactPage_submitContactForm,
   getSuccessMessage |->
     Method(<<>>, <<>>, TextOrNull(Sel("successMessage"))),
   getErrorMessage |->
     Method(<<>>, <<>>, TextOrNull(Sel("errorMessage"))),
   getFieldError |->
     Method(<<"field">>, <<Absent>>,
       <<Let("errorSelector",
             Pick(Arg("field"),
                  [firstName |-> "firstNameError", lastName |-> "lastNameError",
                   email |-> "emailError", phone |-> "phoneError",
                   subject |-> "subjectError", message |-> "messageError"])),
         If(<<IsTruthy(Loc("errorSelector"))>>,
            IfVisible(Loc("errorSelector"),
              <<InPage("textContent", Loc("errorSelector"), NoExpr, NoExpr,
                       "result"),
                Return(Loc("result"))>>,
              <<>>),
            <<>>),
         Return(Lit(Null))>>),
   isLoading |->
     Method(<<>>, <<>>,
       <<Call("isElementVisible", <<Sel("loadingSpinner")>>, "result"),
         Return(Loc("result"))>>),
   clearForm |->
     Method(<<>>, <<>>,
       <<InPage("clear", Sel("firstNameInput"), NoExpr, NoExpr, ""),
         InPage("clear", Sel("lastNameInput"), NoExpr, NoExpr, ""),
         InPage("clear", Sel("emailInput"), NoExpr, NoExpr, "")>>
       \o IfVisible(Sel("phoneInput"),
            <<InPage("clear", Sel("phoneInput"), NoExpr, NoExpr, "")>>, <<>>)
       \o <<InPage("clear", Sel("subjectInput"), NoExpr, NoExpr, ""),
            InPage("clear", Sel("messageTextarea"), NoExpr, NoExpr, ""),
            Call("checkPrivacyPolicy", <<Lit(False)>>, ""),
            Call("checkNewsletter", <<Lit(False)>>, "")>>),
   clickReset |->
     Method(<<>>, <<>>,
       IfVisible(Sel("resetButton"),
         <<InPage("click", Sel("resetButton"), NoExpr, NoExpr, "")>>, <<>>)),
   getContactInfo |->
     Method(<<>>, <<>>,
       ReadIfVisible(Sel("addressSection"))
       \o ReadIfVisible(Sel("phoneSection"))
       \o ReadIfVisible(Sel("emailSection"))
       \o ReadIfVisible(Sel("hoursSection"))
       \o <<Return(Computed)>>),
   verifyFormValidation |->
     Method(<<>>, <<>>,
       <<Call("clickSubmit", <<>>, ""),
         Call("wait", <<Lit(Num(1000))>>, ""),
         Call("getFieldError", <<Lit(Text("firstName"))>>, "text"),
         Call("getFieldError", <<Lit(Text("lastName"))>>, "text"),
         Call("getFieldError", <<Lit(Text("email"))>>, "text"),
         Call("getFieldError", <<Lit(Text("subject"))>>, "text"),
         Call("getFieldError", <<Lit(Text("message"))>>, "text"),
         Call("getErrorMessage", <<>>, "text"),
         Return(Computed)>>),
   isSubmissionSuccessful |->
     Method(<<>>, <<>>,
       <<Call("isElementVisible", <<Sel("successMessage")>>, "result"),
         Return(Loc("result"))>>)]

\* String.prototype.toLowerCase on the names the callers pass
ToLowerCase(s) ==
  CASE s = "Home" -> "home"
    [] s = "Facebook" -> "facebook"
    [] OTHER -> s

\* map[x.toLowerCase()]
PickLower(x, m) == [Pick(x, m) EXCEPT !.e = "picklower"]

\* if (await this.isElementVisible(sel)) await this.click(sel)
ClickIfVisible(sel) == IfVisible(sel, <<Call("click", <<sel>>, "")>>, <<>>)

\* if (await this.isElementVisible(sel)) return await this.getText(sel)
GetTextIfVisible(sel) ==
  IfVisible(sel,
    <<Call("getText", <<sel>>, "result"), Return(Loc("result"))>>, <<>>)

\* ---------------------------------------------------------- HeaderComponent
HeaderComponent_rootSelector == Text("[data-testid=header]")

HeaderComponent_selectors ==
  {"header", "logo", "logoImage", "logoText", "mainNav", "navMenu",
   "homeLink", "aboutLink", "servicesLink", "contactLink", "authSection",
   "loginButton", "signupButton", "logoutButton", "userMenu", "userAvatar",
   "userName", "userDropdown", "profileLink", "settingsLink",
   "dashboardLink", "searchSection", "searchInput", "searchButton",
   "searchResults", "mobileMenuToggle", "mobileMenu", "mobileNavLinks",
   "languageSelector", "themeToggle", "notificationBell", "cartIcon",
   "cartCount"}

\* clickUserMenu, wait for the dropdown, click the link if it is visible
ViaUserMenu(sel) ==
  <<Call("clickUserMenu", <<>>, ""),
    OnPage("waitForTimeout", Lit(Num(500)), NoExpr, "")>>
  \o ClickIfVisible(sel)

\* if (await this.isElementVisible(sel)) text = await this.getText(sel)
GetTextOf(sel) ==
  IfVisible(sel, <<Call("getText", <<sel>>, "text")>>, <<>>)

HeaderComponent ==
  [isHeaderVisible |->
     Method(<<>>, <<>>,
       <<Call("isVisible", <<>>, "result"), Return(Loc("result"))>>),
   clickLogo |->
     Method(<<>>, <<>>,
       <<Call("waitForVisible", <<>>, ""),
         Call("click", <<Sel("logo")>>, "")>>),
   getLogoText |->
     Method(<<>>, <<>>,
       GetTextIfVisible(Sel("logoText")) \o <<Return(Lit(Null))>>),
   navigateToHome |->
     Method(<<>>, <<>>,
       <<Call("waitForVisible", <<>>, ""),
         Call("click", <<Sel("homeLink")>>, "")>>),
   navigateToAbout |->
     Method(<<>>, <<>>,
       <<Call("waitForVisible", <<>>, "")>> \o ClickIfVisible(Sel("aboutLink"))),
   navigateToServices |->
     Method(<<>>, <<>>,
       <<Call("waitForVisible", <<>>, "")>>
       \o ClickIfVisible(Sel("servicesLink"))),
   navigateToContact |->
     Method(<<>>, <<>>,
       <<Call("waitForVisible", <<>>, ""),
         Call("click", <<Sel("contactLink")>>, "")>>),
   clickLogin |->
     Method(<<>>, <<>>,
       <<Call("waitForVisible", <<>>, "")>>
       \o ClickIfVisible(Sel("loginButton"))),
   clickSignup |->
     Method(<<>>, <<>>,
       <<Call("waitForVisible", <<>>, "")>>
       \o ClickIfVisible(Sel("signupButton"))),
   clickLogout |->
     Method(<<>>, <<>>,
       <<Call("waitForVisible", <<>>, "")>>
       \o ClickIfVisible(Sel("logoutButton"))),
   isUserLoggedIn |->
     Method(<<>>, <<>>,
       IfVisible(Sel("userMenu"), <<Return(Lit(True))>>, <<>>)
       \o IfVisible(Sel("logoutButton"), <<Return(Lit(True))>>, <<>>)
       \o <<Call("isElementVisible", <<Sel("userName")>>, "result"),
            Return(Loc("result"))>>),
   getUserName |->
     Method(<<>>, <<>>,
       GetTextIfVisible(Sel("userName")) \o <<Return(Lit(Null))>>),
   clickUserMenu |->
     Method(<<>>, <<>>,
       <<Call("waitForVisible", <<>>, "")>>
       \o IfVisible(Sel("userMenu"),
            <<Call("click", <<Sel("userMenu")>>, "")>>,
            ClickIfVisible(Sel("userAvatar")))),
   navigateToProfile |->
     Method(<<>>, <<>>, ViaUserMenu(Sel("profileLink"))),
   navigateToSettings |->
     Method(<<>>, <<>>, ViaUserMenu(Sel("settingsLink"))),
   navigateToDashboard |->
     Method(<<>>, <<>>, ViaUserMenu(Sel("dashboardLink"))),
   search |->
     Method(<<"searchTerm">>, <<Absent>>,
       IfVisible(Sel("searchInput"),
         <<Call("fill", <<Sel("searchInput"), Arg("searchTerm")>>, "")>>
         \o IfVisible(Sel("searchButton"),
              <<Call("click", <<Sel("searchButton")>>, "")>>,
              <<InRoot("press", Sel("searchInput"), Lit(Text("Enter")), NoExpr,
                       "")>>),
         <<>>)),
   getSearchResults |->
     Method(<<>>, <<>>,
       IfVisible(Sel("searchResults"),
         <<InRoot("all", Sel("searchResults"), NoExpr, NoExpr, "results"),
           ForEach("results",
             <<InRoot("textContent", Sel("searchResults"), NoExpr, NoExpr,
                      "text")>>),
           Return(Computed)>>,
         <<>>)
       \o <<Return(Computed)>>),
   toggleMobileMenu |->
     Method(<<>>, <<>>, ClickIfVisible(Sel("mobileMenuToggle"))),
   isMobileMenuOpen |->
     Method(<<>>, <<>>,
       <<Call("isElementVisible", <<Sel("mobileMenu")>>, "result"),
         Return(Loc("result"))>>),
   navigateViaMobileMenu |->
     Method(<<"linkName">>, <<Absent>>,
       <<Call("toggleMobileMenu", <<>>, ""),
         OnPage("waitForTimeout", Lit(Num(500)), NoExpr, ""),
         Let("selector",
             PickLower(Arg("linkName"),
                       [home |-> "homeLink", about |-> "aboutLink",
                        services |-> "servicesLink",
                        contact |-> "contactLink"])),
         If(<<IsTruthy(Loc("selector"))>>,
            ClickIfVisible(Loc("selector")), <<>>)>>),
   changeLanguage |->
     Method(<<"language">>, <<Absent>>,
       IfVisible(Sel("languageSelector"),
         <<Call("click", <<Sel("languageSelector")>>, ""),
           InPage("selectOption", Sel("languageSelector"), Arg("language"),
                  NoExpr, "")>>,
         <<>>)),
   toggleTheme |->
     Method(<<>>, <<>>, ClickIfVisible(Sel("themeToggle"))),
   clickNotifications |->
     Method(<<>>, <<>>, ClickIfVisible(Sel("notificationBell"))),
   clickCart |->
     Method(<<>>, <<>>, ClickIfVisible(Sel("cartIcon"))),
   getCartCount |->
     Method(<<>>, <<>>,
       IfVisible(Sel("cartCount"),
         <<Call("getText", <<Sel("cartCount")>>, "countText"),
           Return(Computed)>>,
         <<>>)
       \o <<Return(Lit(Num(0)))>>),
   getNavigationLinks |->
     Method(<<>>, <<>>,
       GetTextOf(Sel("homeLink")) \o GetTextOf(Sel("aboutLink"))
       \o GetTextOf(Sel("servicesLink")) \o GetTextOf(Sel("contactLink"))
       \o <<Return(Computed)>>),
   getAuthenticationState |->
     Method(<<>>, <<>>,
       <<Call("isUserLoggedIn", <<>>, "result"),
         Call("getUserName", <<>>, "text"),
         Call("isElementVisible", <<Sel("loginButton")>>, "visible"),
         Call("isElementVisible", <<Sel("signupButton")>>, "visible"),
         Call("isElementVisible", <<Sel("logoutButton")>>, "visible"),
         Call("isElementVisible", <<Sel("userMenu")>>, "visible"),
         Return(Computed)>>)]

\* ---------------------------------------------------------- FooterComponent
FooterComponent_rootSelector == Text("[data-testid=footer]")

FooterComponent_selectors ==
  {"footer", "footerContent", "footerTop", "footerBottom", "companySection",
   "companyName", "companyDescription", "companyLogo", "contactSection",
   "contactTitle", "addressInfo", "phoneInfo", "emailInfo",
   "quickLinksSection", "quickLinksTitle", "quickLinksList",
   "homeFooterLink", "aboutFooterLink", "servicesFooterLink",
   "contactFooterLink", "privacyPolicyLink", "termsOfServiceLink",
   "socialSection", "socialTitle", "socialLinks", "facebookLink",
   "twitterLink", "linkedinLink", "instagramLink", "youtubeLink",
   "newsletterSection", "newsletterTitle", "newsletterDescription",
   "newsletterInput", "newsletterButton", "newsletterSuccess",
   "newsletterError", "copyrightSection", "copyrightText", "legalLinks",
   "backToTopButton", "languageSelector", "currencySelector"}

\* scrollToElement(footer), then click the link if it is visible
FooterLink(sel) ==
  <<Call("scrollToElement", <<Sel("footer")>>, "")>> \o ClickIfVisible(sel)

\* the two waits raced after a newsletter subscription
NewsletterWaits ==
  <<Wait("success",
         InPage("waitForSelector", Sel("newsletterSuccess"), NoExpr,
                Ms(5000), "")),
    Wait("error",
         InPage("waitForSelector", Sel("newsletterError"), NoExpr, Ms(5000),
                ""))>>

FooterComponent ==
  [isFooterVisible |->
     Method(<<>>, <<>>,
       <<Call("isVisible", <<>>, "result"), Return(Loc("result"))>>),
   getCompanyName |->
     Method(<<>>, <<>>,
       GetTextIfVisible(Sel("companyName")) \o <<Return(Lit(Null))>>),
   getCompanyDescription |->
     Method(<<>>, <<>>,
       GetTextIfVisible(Sel("companyDescription")) \o <<Return(Lit(Null))>>),
   getContactInfo |->
     Method(<<>>, <<>>,
       GetTextOf(Sel("addressInfo")) \o GetTextOf(Sel("phoneInfo"))
       \o GetTextOf(Sel("emailInfo")) \o <<Return(Computed)>>),
   navigateToHome |->
     Method(<<>>, <<>>, FooterLink(Sel("homeFooterLink"))),
   navigateToAbout |->
     Method(<<>>, <<>>, FooterLink(Sel("aboutFooterLink"))),
   navigateToServices |->
     Method(<<>>, <<>>, FooterLink(Sel("servicesFooterLink"))),
   navigateToContact |->
     Method(<<>>, <<>>, FooterLink(Sel("contactFooterLink"))),
   clickPrivacyPolicy |->
     Method(<<>>, <<>>, FooterLink(Sel("privacyPolicyLink"))),
   clickTermsOfService |->
     Method(<<>>, <<>>, FooterLink(Sel("termsOfServiceLink"))),
   clickSocialLink |->
     Method(<<"platform">>, <<Absent>>,
       <<Call("scrollToElement", <<Sel("footer")>>, ""),
         Let("selector",
             PickLower(Arg("platform"),
                       [facebook |-> "facebookLink", twitter |-> "twitterLink",
                        linkedin |-> "linkedinLink",
                        instagram |-> "instagramLink",
                        youtube |-> "youtubeLink"])),
         If(<<IsTruthy(Loc("selector"))>>,
            ClickIfVisible(Loc("selector")), <<>>)>>),
   getAvailableSocialLinks |->
     Method(<<>>, <<>>,
       <<Call("isElementVisible", <<Sel("facebookLink")>>, "visible"),
         Call("isElementVisible", <<Sel("twitterLink")>>, "visible"),
         Call("isElementVisible", <<Sel("linkedinLink")>>, "visible"),
         Call("isElementVisible", <<Sel("instagramLink")>>, "visible"),
         Call("isElementVisible", <<Sel("youtubeLink")>>, "visible"),
         Return(Computed)>>),
   subscribeToNewsletter |->
     Method(<<"email">>, <<Absent>>,
       <<Call("scrollToElement", <<Sel("footer")>>, "")>>
       \o IfVisible(Sel("newsletterInput"),
            <<Call("fill", <<Sel("newsletterInput"), Arg("email")>>, "")>>
            \o IfVisible(Sel("newsletterButton"),
                 <<Call("click", <<Sel("newsletterButton")>>, "")>>,
                 <<InRoot("press", Sel("newsletterInput"), Lit(Text("Enter")),
                          NoExpr, "")>>)
            \o <<Try(<<Race(NewsletterWaits)>>, <<>>)>>,
            <<>>)),
   getNewsletterResult |->
     Method(<<>>, <<>>,
       GetTextOf(Sel("newsletterSuccess")) \o GetTextOf(Sel("newsletterError"))
       \o <<Return(Computed)>>),
   getCopyrightText |->
     Method(<<>>, <<>>,
       GetTextIfVisible(Sel("copyrightText")) \o <<Return(Lit(Null))>>),
   clickBackToTop |->
     Method(<<>>, <<>>,
       IfVisible(Sel("backToTopButton"),
         <<Call("click", <<Sel("backToTopButton")>>, ""),
           OnPage("waitForTimeout", Lit(Num(1000)), NoExpr, "")>>,
         <<>>)),
   getQuickLinks |->
     Method(<<>>, <<>>,
       GetTextOf(Sel("homeFooterLink")) \o GetTextOf(Sel("aboutFooterLink"))
       \o GetTextOf(Sel("servicesFooterLink"))
       \o GetTextOf(Sel("contactFooterLink"))
       \o GetTextOf(Sel("privacyPolicyLink"))
       \o GetTextOf(Sel("termsOfServiceLink"))
       \o <<Return(Computed)>>),
   verifyFooterSections |->
     Method(<<>>, <<>>,
       <<Call("isElementVisible", <<Sel("companySection")>>, "visible"),
         Call("isElementVisible", <<Sel("contactSection")>>, "visible"),
         Call("isElementVisible", <<Sel("quickLinksSection")>>, "visible"),
         Call("isElementVisible", <<Sel("socialSection")>>, "visible"),
         Call("isElementVisible", <<Sel("newsletterSection")>>, "visible"),
         Call("isElementVisible", <<Sel("copyrightSection")>>, "visible"),
         Return(Computed)>>),
   changeLanguage |->
     Method(<<"language">>, <<Absent>>,
       IfVisible(Sel("languageSelector"),
         <<Call("click", <<Sel("languageSelector")>>, ""),
           InPage("selectOption", Sel("languageSelector"), Arg("language"),
                  NoExpr, "")>>,
         <<>>)),
   changeCurrency |->
     Method(<<"currency">>, <<Absent>>,
       IfVisible(Sel("currencySelector"),
         <<Call("click", <<Sel("currencySelector")>>, ""),
           InPage("selectOption", Sel("currencySelector"), Arg("currency"),
                  NoExpr, "")>>,
         <<>>)),
   scrollToFooter |->
     Method(<<>>, <<>>,
       <<Call("scrollToElement", <<Sel("footer")>>, ""),
         OnPage("waitForTimeout", Lit(Num(500)), NoExpr, "")>>),
   getFooterHeight |->
     Method(<<>>, <<>>,
       <<Call("isVisible", <<>>, "visible"),
         If(<<IsTruthy(Loc("visible"))>>,
            <<InRoot("boundingBox", Sel("footer"), NoExpr, NoExpr,
                     "boundingBox"),
              Return(Computed)>>,
            <<>>),
         Return(Lit(Num(0)))>>),
   isFooterSticky |->
     Method(<<>>, <<>>,
       <<InRoot("evaluate", Sel("footer"), NoExpr, NoExpr, "position"),
         Return(Computed)>>)]

\* ----------------------------------------------------------------- HomePage
HomePage_selectors ==
  {"heroSection", "heroTitle", "heroSubtitle", "heroCtaButton",
   "featuresSection", "featureCards", "featureTitle", "featureDescription",
   "welcomeMessage", "mainNavigation", "aboutSection", "servicesSection",
   "ctaSection", "primaryCtaButton", "secondaryCtaButton"}

HomePage ==
  [navigateToHome |->
     Method(<<>>, <<>>,
       <<Call("navigateTo", <<Lit(Text("/"))>>, ""),
         Call("waitForPageLoad", <<>>, "")>>),
   isHomePageLoaded |->
     Method(<<>>, <<>>,
       <<Try(<<Call("waitForElement", <<Sel("heroSection")>>, ""),
               Call("isElementVisible", <<Sel("heroTitle")>>, "result"),
               Return(Loc("result"))>>,
             <<Return(Lit(False))>>)>>),
   getHeroTitle |->
     Method(<<>>, <<>>,
       <<Call("waitForElement", <<Sel("heroTitle")>>, ""),
         InPage("textContent", Sel("heroTitle"), NoExpr, NoExpr, "result"),
         Return(Loc("result"))>>),
   getHeroSubtitle |->
     Method(<<>>, <<>>,
       <<Call("waitForElement", <<Sel("heroSubtitle")>>, ""),
         InPage("textContent", Sel("heroSubtitle"), NoExpr, NoExpr, "result"),
         Return(Loc("result"))>>),
   clickHeroCta |->
     Method(<<>>, <<>>,
       <<Call("waitForElement", <<Sel("heroCtaButton")>>, ""),
         InPage("click", Sel("heroCtaButton"), NoExpr, NoExpr, "")>>),
   getFeatureCards |->
     Method(<<>>, <<>>,
       <<Call("waitForElement", <<Sel("featuresSection")>>, ""),
         InPage("all", Sel("featureCards"), NoExpr, NoExpr, "cards"),
         ForEach("cards",
           <<InPage("textContent", Sel("featureTitle"), NoExpr, NoExpr,
                    "title"),
             InPage("textContent", Sel("featureDescription"), NoExpr, NoExpr,
                    "description")>>),
         Return(Computed)>>),
   isFeaturesVisible |->
     Method(<<>>, <<>>,
       <<Call("isElementVisible", <<Sel("featuresSection")>>, "result"),
         Return(Loc("result"))>>),
   clickPrimaryCta |->
     Method(<<>>, <<>>,
       <<Call("scrollToElement", <<Sel("primaryCtaButton")>>, ""),
         Call("waitForElement", <<Sel("primaryCtaButton")>>, ""),
         InPage("click", Sel("primaryCtaButton"), NoExpr, NoExpr, "")>>),
   clickSecondaryCta |->
     Method(<<>>, <<>>,
       <<Call("scrollToElement", <<Sel("secondaryCtaButton")>>, ""),
         Call("waitForElement", <<Sel("secondaryCtaButton")>>, ""),
         InPage("click", Sel("secondaryCtaButton"), NoExpr, NoExpr, "")>>),
   getWelcomeMessage |->
     Method(<<>>, <<>>, TextOrNull(Sel("welcomeMessage"))),
   verifyMainSections |->
     Method(<<>>, <<>>,
       <<Call("isElementVisible", <<Sel("heroSection")>>, "visible"),
         Call("isElementVisible", <<Sel("featuresSection")>>, "visible"),
         Call("isElementVisible", <<Sel("aboutSection")>>, "visible"),
         Call("isElementVisible", <<Sel("servicesSection")>>, "visible"),
         Call("isElementVisible", <<Sel("ctaSection")>>, "visible"),
         Return(Computed)>>),
   scrollToSection |->
     Method(<<"section">>, <<Absent>>,
       <<Let("selector",
             Pick(Arg("section"),
                  [hero |-> "heroSection", features |-> "featuresSection",
                   about |-> "aboutSection", services |-> "servicesSection",
                   cta |-> "ctaSection"])),
         If(<<IsTruthy(Loc("selector"))>>,
            <<Call("scrollToElement", <<Loc("selector")>>, ""),
              Call("wait", <<Lit(Num(500))>>, "")>>,
            <<Throw("Unknown section")>>)>>),
   getPageMetadata |->
     Method(<<>>, <<>>,
       <<Call("getPageTitle", <<>>, "title"),
         Call("getCurrentUrl", <<>>, "url"),
         Try(<<InPage("getAttribute", Lit(Text("meta[name=description]")),
                      Lit(Text("content")), NoExpr, "description")>>,
             <<>>),
         Return(Computed)>>)]

\* ------------------------------------------------------------- the classes
OwnMethods(class) ==
  CASE class = "BasePage" -> BasePage
    [] class = "BaseComponent" -> BaseComponent
    [] class = "LoginPage" -> LoginPage
    [] class = "ContactPage" -> ContactPage
    [] class = "HomePage" -> HomePage
    [] class = "HeaderComponent" -> HeaderComponent
    [] class = "FooterComponent" -> FooterComponent

\* class X extends Y
BaseOf(class) ==
  CASE class \in {"LoginPage", "ContactPage", "HomePage"} -> "BasePage"
    [] class \in {"HeaderComponent", "FooterComponent"} -> "BaseComponent"
    [] OTHER -> ""

Pages == {"BasePage", "LoginPage", "ContactPage", "HomePage"}
Components == {"BaseComponent", "HeaderComponent", "FooterComponent"}
Classes == Pages \cup Components

\* this.selectors of an instance
SelectorsOf(class) ==
  CASE class = "LoginPage" -> LoginPage_selectors
    [] class = "ContactPage" -> ContactPage_selectors
    [] class = "HomePage" -> HomePage_selectors
    [] class = "HeaderComponent" -> HeaderComponent_selectors
    [] class = "FooterComponent" -> FooterComponent_selectors
    [] OTHER -> {}

\* this.rootSelector of an instance: null for a bare BaseComponent
RootOf(class) ==
  CASE class = "HeaderComponent" -> HeaderComponent_rootSelector
    [] class = "FooterComponent" -> FooterComponent_rootSelector
    [] OTHER -> Null

\* the class that defines the method an instance answers to, "" if none does
Owner(class, meth) ==
  IF meth \in DOMAIN OwnMethods(class) THEN class
  ELSE IF BaseOf(class) # "" /\ meth \in DOMAIN OwnMethods(BaseOf(class))
       THEN BaseOf(class)
       ELSE ""

MethodOf(class, meth) == OwnMethods(Owner(class, meth))[meth]

\* ------------------------------------------------------------- the engine
Outcomes == {"ok", "timeout", "error"}

\* the calls that return at once
SyncOps == {"url"}
\* the calls that do not wait for an element or an event
NoWaitOps == {"title", "waitForTimeout", "all"}
\* the calls that read a text
TextOps == {"textContent", "title"}

\* the inputs and checkboxes of the forms, by their selector keys
TextInputs ==
  {"emailInput", "passwordInput", "firstNameInput", "lastNameInput",
   "phoneInput", "subjectInput", "messageTextarea", "inquiryTypeSelect",
   "attachmentInput"}
\* the remember-me checkbox of the login form among them
Checkboxes == {"privacyCheckbox", "newsletterCheckbox", "rememberMeCheckbox"}
FormKeys == TextInputs \cup Checkboxes

OldText == Text("old")
NewText == Text("new")
Empty == Str(<<>>)

EmptyForm == [k \in FormKeys |-> IF k \in Checkboxes THEN False ELSE Empty]
FilledForm == [k \in FormKeys |-> IF k \in Checkboxes THEN True ELSE OldText]
Forms == {EmptyForm, FilledForm}

\* the texts an element can show, the URLs a page can be at
Texts == {Text("text")}
Urls == {Text("/login"), Text("/dashboard"), Text("/home")}

IsString(v) == v.t = "string"
KeyOf(selv) == IF IsString(selv) /\ Len(selv.s) = 1 THEN selv.s[1] ELSE ""

\* what a successful engine call gives back
Results(op, selv, frm) ==
  CASE op \in TextOps -> Texts
    [] op = "getAttribute" -> Texts \cup {Null}
    [] op = "url" -> Urls
    [] op = "isChecked" ->
         IF KeyOf(selv) \in Checkboxes THEN {frm[KeyOf(selv)]}
         ELSE {True, False}
    [] op = "all" -> {Num(k) : k \in 0..MaxItems}
    [] op = "boundingBox" -> {Obj, Null}
    [] op = "evaluate" -> Texts
    [] OTHER -> {Absent}

\* what a successful engine call does to the form
Effect(op, selv, val, frm) ==
  LET key == KeyOf(selv)
  IN  IF key \notin FormKeys THEN frm
      ELSE CASE op = "clear" -> [frm EXCEPT ![key] = Empty]
             [] op \in {"fill", "selectOption", "setInputFiles"} ->
                  [frm EXCEPT ![key] = val]
             [] op = "check" -> [frm EXCEPT ![key] = True]
             [] op = "uncheck" -> [frm EXCEPT ![key] = False]
             [] OTHER -> frm

\* the orders in which the outcomes of a submission can show up
Kinds == {"success", "error", "url"}
EventOrders ==
  {<<>>}
  \cup {<<a>> : a \in Kinds}
  \cup {e \in [1..2 -> Kinds] : e[1] # e[2]}
  \cup {e \in [1..3 -> Kinds] : e[1] # e[2] /\ e[1] # e[3] /\ e[2] # e[3]}

\* --------------------------------------------------------- the interpreter
LocalNames ==
  {"visible", "isChecked", "result", "errorSelector", "selector",
   "currentUrl", "text", "results", "countText", "boundingBox", "position",
   "cards", "title", "description", "url"}

NoLocals == [n \in LocalNames |-> Absent]

IsUndefined(v) == "t" \in DOMAIN v /\ v.t = "absent"

\* the arguments of a call: a default stands in for an undefined argument
Bind(m, argv) ==
  [i \in 1..Len(m.params) |->
     IF i <= Len(argv) /\ ~IsUndefined(argv[i]) THEN argv[i]
     ELSE m.defaults[i]]

Frame(class, meth, argv, into) ==
  LET m == MethodOf(class, meth)
  IN  [class |-> class, meth |-> meth, owner |-> Owner(class, meth),
       params |-> m.params, args |-> Bind(m, argv), locals |-> NoLocals,
       code |-> m.body, into |-> into]

ArgOf(f, name) ==
  f.args[CHOOSE i \in 1..Len(f.params) : f.params[i] = name]

SelectorOf(class, key) ==
  IF key \in SelectorsOf(class) THEN Selector(key) ELSE Absent

RECURSIVE Eval(_, _)
Eval(x, f) ==
  CASE x.e = "lit" -> x.v
    [] x.e = "arg" -> ArgOf(f, x.name)
    [] x.e = "argfield" -> ArgOf(f, x.name)[x.field]
    [] x.e = "loc" -> f.locals[x.name]
    [] x.e = "sel" -> SelectorOf(f.class, x.name)
    [] x.e = "root" -> RootOf(f.class)
    [] x.e \in {"pick", "picklower"} ->
         LET a == KeyOf(Eval(x.x, f))
             key == IF x.e = "picklower" THEN ToLowerCase(a) ELSE a
         IN  IF key \in DOMAIN x.m THEN SelectorOf(f.class, x.m[key])
             ELSE Absent

Test(t, f) ==
  LET v == Eval(t.x, f)
  IN  CASE t.test = "truthy" -> Truthy(v) = t.pos
        [] t.test = "defined" -> ~IsUndefined(v)
        [] t.test = "among" -> v \in t.among

Holds(cond, f) == \A i \in 1..Len(cond) : Test(cond[i], f)

IsCatch(st) == st.k = "catch"

\* the stack after an exception: the frames without a try block around the
\* point of the throw are dropped, the nearest catch block runs next
RECURSIVE Unwind(_)
Unwind(stk) ==
  IF stk = <<>> THEN <<>>
  ELSE LET f == stk[Len(stk)]
           below == SubSeq(stk, 1, Len(stk) - 1)
           at == {i \in 1..Len(f.code) : IsCatch(f.code[i])}
       IN  IF at = {} THEN Unwind(below)
           ELSE LET i == CHOOSE j \in at : \A h \in at : j <= h
                IN  Append(below,
                      [f EXCEPT !.code = f.code[i].els
                                         \o SubSeq(f.code, i + 1, Len(f.code))])

\* ---------------------------------------------------------- makeApiRequest
\* An object is a function from its own keys to their values; a key that is
\* not in the object reads as undefined.
Get(obj, key) == IF key \in DOMAIN obj THEN obj[key] ELSE Absent

NoProps == [k \in {} |-> Absent]

\* the own properties ...v copies: none for undefined
Props(v) == IF v = Absent THEN NoProps ELSE v

\* { ...a, ...b }
Spread(a, b) ==
  [k \in DOMAIN a \cup DOMAIN b |-> IF k \in DOMAIN b THEN b[k] ELSE a[k]]

\* { k: v }
Only(key, v) == [k \in {key} |-> v]

JsonType == "application/json"

\* { 'Content-Type': 'application/json', 'Accept': 'application/json' }
DefaultHeaders == [k \in {"Content-Type", "Accept"} |-> JsonType]

\* String.prototype.toUpperCase on the names of the HTTP methods
ToUpperCase(m) ==
  CASE m = "get" -> "GET"
    [] m = "post" -> "POST"
    [] m = "put" -> "PUT"
    [] m = "delete" -> "DELETE"
    [] OTHER -> m

\* an object with properties: { email, password }
WithProps(ps) == [t |-> "object", n |-> 0, s |-> <<>>, props |-> ps]

Credentials(email, password) ==
  WithProps(<<<<"email", email>>, <<"password", password>>>>)

Quote(cs) == <<"\"">> \o cs \o <<"\"">>

\* the JSON text of a primitive
StringifyValue(v) ==
  CASE v.t = "string" -> Quote(v.s)
    [] v.t = "null" -> <<"null">>
    [] v.t = "boolean" -> IF v.n = 1 THEN <<"true">> ELSE <<"false">>
    [] OTHER -> <<>>

RECURSIVE StringifyProps(_)
StringifyProps(ps) ==
  IF ps = <<>> THEN <<>>
  ELSE Quote(<<ps[1][1]>>) \o <<":">> \o StringifyValue(ps[1][2])
       \o (IF Len(ps) > 1 THEN <<",">> ELSE <<>>)
       \o StringifyProps(Tail(ps))

\* JSON.stringify
JSONstringify(v) ==
  Str(IF v.t = "object" THEN <<"{">> \o StringifyProps(v.props) \o <<"}">>
      ELSE StringifyValue(v))

\* what the server answers: no answer at all (the fetch rejects), or a
\* status with a body that parses as JSON or does not
NoReply == [fetched |-> FALSE, status |-> 0, parses |-> FALSE]
Statuses == {200, 400, 401, 422, 500}
HttpReplies ==
  {NoReply}
  \cup {[fetched |-> TRUE, status |-> s, parses |-> p] :
          s \in Statuses, p \in BOOLEAN}

\* response.statusText()
StatusText(s) ==
  CASE s = 200 -> "OK"
    [] s = 400 -> "Bad Request"
    [] s = 401 -> "Unauthorized"
    [] s = 422 -> "Unprocessable Entity"
    [] OTHER -> "Internal Server Error"

\* response.ok()
IsOk(s) == s \in 200..299

\* response.headers()
ReplyHeaders == Only("content-type", JsonType)

ApiReturned(v, sent) ==
  [status |-> "returned", value |-> v, error |-> <<>>, sent |-> sent]
ApiThrew(err, sent) ==
  [status |-> "threw", value |-> NoProps, error |-> err, sent |-> sent]

\* the error thrown from the catch block
RequestFailed(why) == <<"API request failed: ", why>>

\* the object makeApiRequest returns for an answer
Reported(reply) ==
  [status |-> reply.status, statusText |-> StatusText(reply.status),
   headers |-> ReplyHeaders, body |-> Obj, ok |-> IsOk(reply.status)]

\* the options handed to request.fetch
requestOptions(method, options) ==
  LET defaultHeaders == Spread(DefaultHeaders, Props(Get(options, "headers")))
      upper == ToUpperCase(method)
      opts == Spread([k \in {"method", "headers"} |->
                        IF k = "method" THEN Str(<<upper>>)
                        ELSE defaultHeaders],
                     options)
  IN  IF Truthy(Get(options, "data")) /\ upper \in {"POST", "PUT"}
      THEN Spread(opts, Only("data", JSONstringify(options["data"])))
      ELSE opts

\* makeApiRequest that rejects the answers with an error status
makeApiRequestRejecting(method, url, options, reply) ==
  LET sent == [url |-> url, options |-> requestOptions(method, options)]
  IN  IF ~reply.fetched THEN ApiThrew(RequestFailed("fetch"), sent)
      ELSE IF ~reply.parses THEN ApiThrew(RequestFailed("json"), sent)
      ELSE IF ~IsOk(reply.status) THEN ApiThrew(RequestFailed("status"), sent)
      ELSE ApiReturned(Reported(reply), sent)

makeApiRequest(method, url, options, reply) ==
  LET sent == [url |-> url, options |-> requestOptions(method, options)]
  IN  IF ~reply.fetched THEN ApiThrew(RequestFailed("fetch"), sent)
      ELSE IF ~reply.parses THEN ApiThrew(RequestFailed("json"), sent)
      ELSE ApiReturned(Reported(reply), sent)

loginApi(email, password, baseUrl, reply) ==
  makeApiRequest("POST", <<baseUrl, "/auth/login">>,
                 Only("data", Credentials(email, password)), reply)

\* the calls of the tests
HttpMethods == {"GET", "POST", "PUT", "DELETE", "post"}
HeaderNames == {"Content-Type", "Accept", "Authorization"}
HeaderValues == {JsonType, "text/plain"}
HeaderObjects == UNION {[S -> HeaderValues] : S \in SUBSET HeaderNames}
DataValues == {Credentials(NewText, NewText), Empty}
OptionObjects ==
  {NoProps}
  \cup {Only("headers", h) : h \in HeaderObjects}
  \cup {Only("data", d) : d \in DataValues}
  \cup {Spread(Only("headers", h), Only("data", d)) :
          h \in HeaderObjects, d \in DataValues}
BaseUrl == "https://host/api"

\* ------------------------------------------------- the calls a test makes
NoFields ==
  [firstName |-> Absent, lastName |-> Absent, email |-> Absent,
   phone |-> Absent, subject |-> Absent, message |-> Absent,
   inquiryType |-> Absent, attachment |-> Absent, acceptPrivacy |-> Absent,
   subscribeNewsletter |-> Absent]

ContactFields == DOMAIN NoFields

\* the values a test gives a field of contactData
FieldValues(field) ==
  IF field \in {"acceptPrivacy", "subscribeNewsletter"} THEN {True, False}
  ELSE {NewText, Empty}

\* the contactData objects with at most k fields
RECURSIVE ContactDatas(_)
ContactDatas(k) ==
  IF k = 0 THEN {NoFields}
  ELSE LET S == ContactDatas(k - 1)
       IN  S \cup UNION {{[d EXCEPT ![fld] = v] : v \in FieldValues(fld)} :
                            d \in S, fld \in ContactFields}

\* the values a test passes for a parameter; Absent leaves the argument out
ParamValues(param) ==
  CASE param = "selector" -> {Selector("element"), Absent}
    [] param = "timeout" -> {Absent, Num(1000)}
    [] param = "check" -> {Absent, True, False}
    [] param = "rememberMe" -> {Absent, True}
    [] param = "field" -> {Text("email"), Text("password"), Text("other")}
    [] param = "linkName" -> {Text("Home"), Text("other")}
    [] param = "platform" -> {Text("Facebook"), Text("other")}
    [] param = "section" -> {Text("hero"), Text("other")}
    [] param = "url" -> {Text("/login")}
    [] param = "milliseconds" -> {Num(1000)}
    [] param = "contactData" -> ContactDatas(MaxContactFields)
    [] OTHER -> {NewText}

RECURSIVE ArgLists(_)
ArgLists(params) ==
  IF params = <<>> THEN {<<>>}
  ELSE {<<v>> \o rest : v \in ParamValues(Head(params)),
                        rest \in ArgLists(Tail(params))}

Invocation(class, meth, args) ==
  [class |-> class, meth |-> meth, args |-> args]

\* the methods an instance answers to: its own and the inherited ones
MethodsOf(class) ==
  DOMAIN OwnMethods(class)
  \cup (IF BaseOf(class) = "" THEN {} ELSE DOMAIN OwnMethods(BaseOf(class)))

\* every method of every instance, with every choice of arguments
Invocations ==
  UNION {UNION {{Invocation(c, m, a) : a \in ArgLists(MethodOf(c, m).params)}
                : m \in MethodsOf(c)}
         : c \in Classes}

\* ---------------------------------------------------------------- the state
VARIABLES
  response,      \* the response under validation
  expectedUser,  \* the expectedUser argument
  now,           \* the clock: the value new Date() gives
  lastCall,      \* the latest call of validateLoginResponse and its result
  prevCall,      \* the call before it
  invoked,       \* the method a test has called on a page object
  before,        \* the form as it was when the method was called
  stack,         \* the frames of the methods that are running
  trace,         \* the engine calls made so far, with their outcomes
  form,          \* the values of the inputs and checkboxes of the page
  outcome,       \* how the called method has ended
  ui,            \* what the page shows, when the page holds still
  calls,         \* the calls the test has made before, with how they ended
  apiCall,       \* the latest call of makeApiRequest or loginApi
  apiResult      \* what that call came to, and what it sent

varsValidator == <<response, expectedUser, now, lastCall, prevCall>>

varsPages == <<invoked, before, stack, trace, form, outcome>>

varsSession == <<ui, calls>>

varsApi == <<apiCall, apiResult>>

vars == <<varsValidator, varsPages, varsSession, varsApi>>

NoCall == [called |-> FALSE, at |-> 0, result |-> NewValidation]

NoInvocation == Invocation("", "", <<>>)

Idle == [status |-> "idle", value |-> Absent, error |-> ""]
Started == [status |-> "running", value |-> Absent, error |-> ""]
Returned(v) == [status |-> "returned", value |-> v, error |-> ""]
Threw(err) == [status |-> "threw", value |-> Absent, error |-> err]
\* the method is in a wait that nothing will end
Pending == [status |-> "waiting", value |-> Absent, error |-> ""]

NoApiCall ==
  [fn |-> "", method |-> "", url |-> <<>>, options |-> NoProps,
   reply |-> NoReply]

NoApiResult ==
  [status |-> "idle", value |-> NoProps, error |-> <<>>,
   sent |-> [url |-> <<>>, options |-> NoProps]]

\* a page that can change at any moment: every answer of the engine is open
FreePage == [free |-> TRUE, on |-> "", shown |-> "none", hidden |-> {}]

InitValidator ==
  /\ response \in Responses
  /\ expectedUser \in ExpectedUsers
  /\ now = StartYear
  /\ lastCall = NoCall
  /\ prevCall = NoCall
  /\ invoked = NoInvocation
  /\ before = EmptyForm
  /\ stack = <<>>
  /\ trace = <<>>
  /\ form = EmptyForm
  /\ outcome = Idle
  /\ ui = FreePage
  /\ calls = <<>>
  /\ apiCall = NoApiCall
  /\ apiResult = NoApiResult

\* a test calls validateLoginResponse(response, expectedUser)
Validate ==
  /\ lastCall' = [called |-> TRUE, at |-> now,
                  result |-> validateLoginResponse(response, expectedUser, now)]
  /\ prevCall' = lastCall
  /\ UNCHANGED <<response, expectedUser, now>>
  /\ UNCHANGED <<varsPages, varsSession, varsApi>>

\* time passes between two calls
Tick ==
  /\ now < StartYear + MaxTicks
  /\ now' = now + 1
  /\ UNCHANGED <<response, expectedUser, lastCall, prevCall>>
  /\ UNCHANGED <<varsPages, varsSession, varsApi>>

NextValidator == Validate \/ Tick

SpecValidator == InitValidator /\ [][NextValidator]_vars

\* ------------------------------------------------ the page objects at work
InitPages ==
  /\ response = WellFormedResponse
  /\ expectedUser = NoUser
  /\ now = StartYear
  /\ lastCall = NoCall
  /\ prevCall = NoCall
  /\ invoked = NoInvocation
  /\ stack = <<>>
  /\ trace = <<>>
  /\ form \in Forms
  /\ before = form
  /\ outcome = Idle
  /\ ui = FreePage
  /\ calls = <<>>
  /\ apiCall = NoApiCall
  /\ apiResult = NoApiResult

Running == outcome.status = "running" /\ stack # <<>>
Top == stack[Len(stack)]
Below == SubSeq(stack, 1, Len(stack) - 1)
\* the statement about to run
AtStmt(k) == Running /\ Top.code # <<>> /\ Head(Top.code).k = k
Stmt1 == Head(Top.code)
\* the stack with the top frame replaced
WithTop(f) == Append(Below, f)
\* the top frame past its first statement
Past == [Top EXCEPT !.code = Tail(@)]

\* the methods running at this moment, outermost first
Via == [i \in 1..Len(stack) |-> stack[i].meth]

Entry(op, scope, selv, val, ms, o, members, events, by) ==
  [class |-> Top.class, meth |-> Top.meth, owner |-> Top.owner, via |-> Via,
   op |-> op, scope |-> scope, sel |-> selv, val |-> val, ms |-> ms,
   outcome |-> o,
   members |-> members, events |-> events, by |-> by]

\* an exception leaves the statement about to run
RaiseFrom(err) ==
  LET u == Unwind(stack)
  IN  /\ stack' = u
      /\ outcome' = IF u = <<>> THEN Threw(err) ELSE outcome

\* the running method returns v to its caller
ReturnTo(v) ==
  IF Below = <<>>
  THEN /\ stack' = <<>>
       /\ outcome' = Returned(v)
  ELSE LET caller == Below[Len(Below)]
           after == IF Top.into = "" THEN caller
                    ELSE [caller EXCEPT !.locals[Top.into] = v]
       IN  /\ stack' = [Below EXCEPT ![Len(Below)] = after]
           /\ outcome' = outcome

\* a test calls a method of a page object or component
InvokeOf(invs) ==
  /\ outcome.status = "idle"
  /\ \E inv \in invs :
       /\ invoked' = inv
       /\ stack' = <<Frame(inv.class, inv.meth, inv.args, "")>>
  /\ before' = form
  /\ outcome' = Started
  /\ UNCHANGED <<trace, form>>
  /\ UNCHANGED <<varsValidator, varsApi>>
  /\ UNCHANGED varsSession

Invoke == InvokeOf(Invocations)

\* the call waits with its deadline switched off: { timeout: 0 }
Unbounded(st) ==
  LET ms == Eval(st.ms, Top)
  IN  st.op \notin SyncOps \cup NoWaitOps /\ ms.t = "number" /\ ms.n = 0

\* the outcomes an engine call can have: a wait ends by its deadline at the
\* latest, and need not end when it has none
Possible(st, selv) ==
  IF st.scope # "none" /\ ~IsString(selv) THEN {"error"}
  ELSE IF st.op \in SyncOps THEN {"ok"}
  ELSE IF st.op \in NoWaitOps THEN {"ok", "error"}
  ELSE IF Unbounded(st) THEN {"ok", "error", "never"}
  ELSE Outcomes

\* the elements of the login form, gone once the login has redirected
LoginFormKeys == {"loginForm", "emailInput", "passwordInput", "loginButton"}

\* the element is on the page and visible, on a page that holds still
IsShown(key) ==
  /\ key \notin ui.hidden
  /\ key = "successMessage" => ui.shown = "success"
  /\ key = "errorMessage" => ui.shown = "error"
  /\ key \in LoginFormKeys => ui.shown # "url"

\* the outcomes of an engine call: any of the possible ones on a page that
\* can change, the one the page gives on a page that holds still
Answers(st, selv) ==
  IF ui.free THEN Possible(st, selv)
  ELSE IF st.scope # "none" /\ ~IsString(selv) THEN {"error"}
  ELSE IF st.scope = "none" \/ IsShown(KeyOf(selv)) THEN {"ok"}
  ELSE IF Unbounded(st) THEN {"never"}
  ELSE {"timeout"}

\* the URL of a page that holds still
UrlNow == IF ui.shown = "url" THEN Text("/dashboard") ELSE Text("/login")

\* what a successful engine call gives back
Given(st, selv) ==
  IF ~ui.free /\ st.op = "url" THEN {UrlNow}
  ELSE Results(st.op, selv, form)

\* the outcomes that show up while a race waits: on a page that holds still
\* the outcome it already shows, or else at most one new outcome
Arrivals ==
  IF ui.free THEN EventOrders
  ELSE IF ui.shown # "none" THEN {<<ui.shown>>}
  ELSE {<<>>} \cup {<<k>> : k \in Kinds}

\* the page after the outcomes have shown up
After(events) ==
  IF ui.free \/ events = <<>> THEN ui ELSE [ui EXCEPT !.shown = events[1]]

\* an awaited call of the browser engine
EngineCall ==
  /\ AtStmt("engine")
  /\ LET st == Stmt1
         selv == Eval(st.sel, Top)
         val == Eval(st.val, Top)
         ms == Eval(st.ms, Top).n
     IN  \E o \in Answers(st, selv) :
           /\ trace' = Append(trace,
                         Entry(st.op, st.scope, selv, val, ms, o, <<>>, <<>>,
                               ""))
           /\ IF o = "ok"
              THEN \E r \in Given(st, selv) :
                     /\ form' = Effect(st.op, selv, val, form)
                     /\ stack' = WithTop(IF st.into = "" THEN Past
                                         ELSE [Past EXCEPT
                                                 !.locals[st.into] = r])
                     /\ outcome' = outcome
              ELSE /\ form' = form
                   /\ IF o = "never"
                      THEN /\ stack' = stack
                           /\ outcome' = Pending
                      ELSE RaiseFrom(o)
  /\ UNCHANGED <<invoked, before>>
  /\ UNCHANGED <<varsValidator, varsApi>>
  /\ UNCHANGED varsSession

\* the member waits of a race, with their arguments evaluated
Members(st, f) ==
  [i \in 1..Len(st.body) |->
     [op |-> st.body[i].op, scope |-> st.body[i].scope,
      sel |-> Eval(st.body[i].sel, f), ms |-> Eval(st.body[i].ms, f).n,
      kind |-> st.body[i].kind]]

\* the first event of an order that one of the members waits for, 0 if none
FirstHit(ms, events) ==
  LET hits == {i \in 1..Len(events) :
                 \E j \in 1..Len(ms) : ms[j].kind = events[i]}
  IN  IF hits = {} THEN 0 ELSE CHOOSE i \in hits : \A h \in hits : i <= h

\* await Promise.race of waits: it ends with the first event a member waits
\* for, fails with the timeout when there is none, and fails at once when a
\* member cannot start
RaceWaits ==
  /\ AtStmt("race")
  /\ LET ms == Members(Stmt1, Top)
         cannot == \E j \in 1..Len(ms) :
                     ms[j].scope # "none" /\ ~IsString(ms[j].sel)
     IN  \/ /\ ui.free \/ cannot
            /\ trace' = Append(trace,
                          Entry("race", "", Absent, Absent, 0, "error", ms, <<>>, ""))
            /\ RaiseFrom("error")
            /\ ui' = ui
         \/ /\ ~cannot
            /\ \E events \in Arrivals :
                 LET hit == FirstHit(ms, events)
                 IN  /\ ui' = After(events)
                     /\ IF hit = 0
                        THEN IF \A j \in 1..Len(ms) : ms[j].ms = 0
                             THEN /\ trace' = Append(trace,
                                         Entry("race", "", Absent, Absent, 0,
                                               "never", ms, events, ""))
                                  /\ stack' = stack
                                  /\ outcome' = Pending
                             ELSE /\ trace' = Append(trace,
                                         Entry("race", "", Absent, Absent, 0,
                                               "timeout", ms, events, ""))
                                  /\ RaiseFrom("timeout")
                        ELSE /\ trace' = Append(trace,
                                    Entry("race", "", Absent, Absent, 0, "ok",
                                          ms, SubSeq(events, 1, hit),
                                          events[hit]))
                             /\ stack' = WithTop(Past)
                             /\ outcome' = outcome
  /\ UNCHANGED <<invoked, before, form, calls>>
  /\ UNCHANGED <<varsValidator, varsApi>>

\* await this.method(...): a TypeError when this has no such method
CallMethod ==
  /\ AtStmt("call")
  /\ LET st == Stmt1
         argv == [i \in 1..Len(st.args) |-> Eval(st.args[i], Top)]
     IN  IF Owner(Top.class, st.name) = ""
         THEN RaiseFrom("TypeError")
         ELSE /\ stack' = Append(WithTop(Past),
                                 Frame(Top.class, st.name, argv, st.into))
              /\ outcome' = outcome
  /\ UNCHANGED <<invoked, before, trace, form>>
  /\ UNCHANGED <<varsValidator, varsApi>>
  /\ UNCHANGED varsSession

\* const x = expression
Assign ==
  /\ AtStmt("let")
  /\ stack' = WithTop([Past EXCEPT
                         !.locals[Stmt1.into] = Eval(Stmt1.val, Top)])
  /\ UNCHANGED <<invoked, before, trace, form, outcome>>
  /\ UNCHANGED <<varsValidator, varsApi>>
  /\ UNCHANGED varsSession

\* if (cond) { body } else { els }
Branch ==
  /\ AtStmt("if")
  /\ stack' = WithTop([Top EXCEPT
                         !.code = (IF Holds(Stmt1.cond, Top) THEN Stmt1.body
                                   ELSE Stmt1.els) \o Tail(@)])
  /\ UNCHANGED <<invoked, before, trace, form, outcome>>
  /\ UNCHANGED <<varsValidator, varsApi>>
  /\ UNCHANGED varsSession

\* try {
EnterTry ==
  /\ AtStmt("try")
  /\ stack' = WithTop([Top EXCEPT
                         !.code = Stmt1.body \o <<Catch(Stmt1.els)>>
                                  \o Tail(@)])
  /\ UNCHANGED <<invoked, before, trace, form, outcome>>
  /\ UNCHANGED <<varsValidator, varsApi>>
  /\ UNCHANGED varsSession

\* } of a try block that ended without an exception
LeaveTry ==
  /\ AtStmt("catch")
  /\ stack' = WithTop(Past)
  /\ UNCHANGED <<invoked, before, trace, form, outcome>>
  /\ UNCHANGED <<varsValidator, varsApi>>
  /\ UNCHANGED varsSession

\* for (const x of list): one more round, or the end of the loop
Loop ==
  /\ AtStmt("foreach")
  /\ LET left == Top.locals[Stmt1.name].n
     IN  stack' = WithTop(IF left = 0 THEN Past
                          ELSE [Top EXCEPT
                                  !.locals[Stmt1.name] = Num(left - 1),
                                  !.code = Stmt1.body \o @])
  /\ UNCHANGED <<invoked, before, trace, form, outcome>>
  /\ UNCHANGED <<varsValidator, varsApi>>
  /\ UNCHANGED varsSession

\* return x, or the end of the body
ReturnValue ==
  /\ Running
  /\ \/ /\ Top.code = <<>>
        /\ ReturnTo(Absent)
     \/ /\ AtStmt("return")
        /\ ReturnTo(Eval(Stmt1.val, Top))
  /\ UNCHANGED <<invoked, before, trace, form>>
  /\ UNCHANGED <<varsValidator, varsApi>>
  /\ UNCHANGED varsSession

\* throw new Error(text)
ThrowError ==
  /\ AtStmt("throw")
  /\ RaiseFrom(Stmt1.name)
  /\ UNCHANGED <<invoked, before, trace, form>>
  /\ UNCHANGED <<varsValidator, varsApi>>
  /\ UNCHANGED varsSession

NextPages ==
  \/ Invoke
  \/ EngineCall
  \/ RaceWaits
  \/ CallMethod
  \/ Assign
  \/ Branch
  \/ EnterTry
  \/ LeaveTry
  \/ Loop
  \/ ReturnValue
  \/ ThrowError

SpecPages == InitPages /\ [][NextPages]_vars

\* a method that has been called runs on: the event loop resumes it after
\* every await, and the engine answers every call it can answer
Step ==
  \/ EngineCall
  \/ RaceWaits
  \/ CallMethod
  \/ Assign
  \/ Branch
  \/ EnterTry
  \/ LeaveTry
  \/ Loop
  \/ ReturnValue
  \/ ThrowError

SpecPagesFair == SpecPages /\ WF_vars(Step)

\* ------------------------------------------- a test on a page that holds still
\* A test calls one method after another on the page object of the page it
\* is at.  The page holds still between and during the calls: an element is
\* visible or it is not, and the only change that comes by itself is the
\* outcome of a login showing up while a method waits for it.

\* the elements a contact page may lack
OptionalKeys == {"phoneInput", "privacyCheckbox", "newsletterCheckbox"}

SteadyPages ==
  {[free |-> FALSE, on |-> "LoginPage", shown |-> s, hidden |-> {}] :
     s \in {"none"} \cup Kinds}
  \cup {[free |-> FALSE, on |-> "ContactPage", shown |-> "none",
         hidden |-> h] : h \in SUBSET OptionalKeys}

\* the methods the tests call in a row
SessionMethods(class) ==
  IF class = "LoginPage"
  THEN {"fillEmail", "fillPassword", "clearForm", "waitForLoginResult",
        "isLoginSuccessful", "getErrorMessage"}
  ELSE {"fillEmail", "fillPhone", "clearForm", "checkPrivacyPolicy",
        "checkNewsletter"}

SessionInvocations(class) ==
  UNION {{Invocation(class, m, a) : a \in ArgLists(MethodOf(class, m).params)}
         : m \in SessionMethods(class)}

InitSession ==
  /\ response = WellFormedResponse
  /\ expectedUser = NoUser
  /\ now = StartYear
  /\ lastCall = NoCall
  /\ prevCall = NoCall
  /\ invoked = NoInvocation
  /\ stack = <<>>
  /\ trace = <<>>
  /\ form \in Forms
  /\ before = form
  /\ outcome = Idle
  /\ ui \in SteadyPages
  /\ calls = <<>>
  /\ apiCall = NoApiCall
  /\ apiResult = NoApiResult

\* the test calls a method of the page object
InvokeNext == InvokeOf(SessionInvocations(ui.on))

\* the awaited call has returned and the test goes on to its next statement;
\* a call that throws ends the test
Finish ==
  /\ outcome.status = "returned"
  /\ Len(calls) < MaxCalls - 1
  /\ calls' = Append(calls, [inv |-> invoked, outcome |-> outcome])
  /\ invoked' = NoInvocation
  /\ before' = form
  /\ trace' = <<>>
  /\ outcome' = Idle
  /\ UNCHANGED <<stack, form, ui>>
  /\ UNCHANGED <<varsValidator, varsApi>>

NextSession ==
  \/ InvokeNext
  \/ EngineCall
  \/ RaceWaits
  \/ CallMethod
  \/ Branch
  \/ EnterTry
  \/ LeaveTry
  \/ ReturnValue
  \/ ThrowError
  \/ Finish

SpecSession == InitSession /\ [][NextSession]_vars

\* ------------------------------------------------------ the API helper at work
InitApi ==
  /\ response = WellFormedResponse
  /\ expectedUser = NoUser
  /\ now = StartYear
  /\ lastCall = NoCall
  /\ prevCall = NoCall
  /\ invoked = NoInvocation
  /\ before = EmptyForm
  /\ stack = <<>>
  /\ trace = <<>>
  /\ form = EmptyForm
  /\ outcome = Idle
  /\ ui = FreePage
  /\ calls = <<>>
  /\ apiCall = NoApiCall
  /\ apiResult = NoApiResult

\* a test calls makeApiRequest(request, method, url, options)
Request ==
  /\ apiCall = NoApiCall
  /\ \E method \in HttpMethods, options \in OptionObjects,
        reply \in HttpReplies :
       /\ apiCall' = [fn |-> "makeApiRequest", method |-> method,
                      url |-> <<BaseUrl>>, options |-> options,
                      reply |-> reply]
       /\ apiResult' = makeApiRequest(method, <<BaseUrl>>, options, reply)
  /\ UNCHANGED <<varsValidator, varsPages, varsSession>>

\* a test calls loginApi(request, email, password, baseUrl)
Login ==
  /\ apiCall = NoApiCall
  /\ \E email \in {NewText, Empty}, password \in {NewText, Empty},
        reply \in HttpReplies :
       /\ apiCall' = [fn |-> "loginApi", method |-> "POST",
                      url |-> <<BaseUrl, "/auth/login">>,
                      options |-> Only("data", Credentials(email, password)),
                      reply |-> reply]
       /\ apiResult' = loginApi(email, password, BaseUrl, reply)
  /\ UNCHANGED <<varsValidator, varsPages, varsSession>>

NextApi == Request \/ Login

SpecApi == InitApi /\ [][NextApi]_vars

\* ------------------------------------------------------------- the claims
\* the validation the latest call returned
Result == lastCall.result

Contains(seq, m) == \E i \in 1..Len(seq) : seq[i] = m

MissingMessage == Msg("Missing required field: message", <<>>)
BadMessage == Msg("Message field should be a non-empty string", <<>>)
BadUserId == Msg("User ID should be a number", <<>>)
BadUserEmail == Msg("User email should be a string", <<>>)
BadIsActive == Msg("User is_active should be 0, 1, true, or false", <<>>)
BadExpireFormat == Msg("Invalid access_token_expire_at date format", <<>>)
TokenExpired == Msg("Access token appears to be expired", <<>>)

HasData == response.body.data = Obj
HasUser == HasData /\ response.data.user = Obj

\* the expectedUser argument names no email other than the user's
EmailAgrees ==
  \/ ~expectedUser.given
  \/ expectedUser.email = Absent
  \/ expectedUser.email = response.user.email

\* the expectedUser argument names no name other than the user's
NameAgrees ==
  \/ ~expectedUser.given
  \/ expectedUser.name = Absent
  \/ expectedUser.name = response.user.name

\* the token expiry parses to a date after the time t
ExpiryInFuture(t) ==
  /\ In("access_token_expire_at", response.data)
  /\ ~NewDate(response.data.access_token_expire_at).nan
  /\ NewDate(response.data.access_token_expire_at).time > t

\* status 200, success === true and a data object as a well-formed response
\* has them: a user with all required fields, a numeric id and a string
\* email, a string access_token, an expiry in the future at time t
WellFormedButMessage(t) ==
  /\ response.status = 200
  /\ response.body.success = True
  /\ HasUser
  /\ \A i \in 1..Len(userRequiredFields) :
       In(userRequiredFields[i], response.user)
  /\ TypeOf(response.user.id) = "number"
  /\ TypeOf(response.user.email) = "string"
  /\ TypeOf(response.data.access_token) = "string"
  /\ ExpiryInFuture(t)
  /\ EmailAgrees

\* C1 (as claimed): a returned validation has isValid = TRUE exactly when
\* its errors are empty.
C1_IsValidIffNoErrors ==
  lastCall.called => (Result.isValid <=> Result.errors = <<>>)

\* C2 (as claimed): a well-formed status-200 response whose body lacks the
\* message field gives isValid = FALSE, the single error "Missing required
\* field: message" and no warnings.
C2_MissingMessageSingleError ==
  (/\ lastCall.called
   /\ WellFormedButMessage(lastCall.at)
   /\ response.body.message = Absent
   /\ response.user.is_active \in IsActiveValues
   /\ NameAgrees)
  => Result = [isValid |-> FALSE, errors |-> <<MissingMessage>>,
               warnings |-> <<>>]

\* C2 (amended): such a response gives isValid = FALSE, exactly the two
\* errors "Missing required field: message" and "Message field should be a
\* non-empty string", in this order, and no warnings.
C2_MissingMessageTwoErrors ==
  (/\ lastCall.called
   /\ WellFormedButMessage(lastCall.at)
   /\ response.body.message = Absent
   /\ response.user.is_active \in IsActiveValues
   /\ NameAgrees)
  => Result = [isValid |-> FALSE, errors |-> <<MissingMessage, BadMessage>>,
               warnings |-> <<>>]

\* a call on a well-formed response without message has returned
C2_Witness ==
  /\ lastCall.called
  /\ WellFormedButMessage(lastCall.at)
  /\ response.body.message = Absent
  /\ response.user.is_active \in IsActiveValues
  /\ NameAgrees
  /\ Len(Result.errors) = 2

\* C3 (as claimed): two calls on the same arguments return the same
\* validation, whenever they are made.
C3_SameResultAtAnyTimes ==
  (prevCall.called /\ lastCall.called) => prevCall.result = lastCall.result

\* the token expiry has passed at time t
ExpiredAt(t) ==
  /\ ~NewDate(response.data.access_token_expire_at).nan
  /\ NewDate(response.data.access_token_expire_at).time <= t

\* C3 (amended): two calls on the same arguments return the same isValid
\* and errors whenever they are made, and the same warnings when the token
\* expiry has passed at both times or at neither.
C3_SameResultSameExpiry ==
  (prevCall.called /\ lastCall.called)
  => /\ prevCall.result.isValid = lastCall.result.isValid
     /\ prevCall.result.errors = lastCall.result.errors
     /\ (ExpiredAt(prevCall.at) = ExpiredAt(lastCall.at)
         => prevCall.result.warnings = lastCall.result.warnings)

\* two calls at different times, the token expired at both
C3_Witness ==
  /\ prevCall.called
  /\ lastCall.called
  /\ prevCall.at < lastCall.at
  /\ HasData
  /\ ExpiredAt(prevCall.at)
  /\ Contains(prevCall.result.warnings, TokenExpired)
  /\ Contains(lastCall.result.warnings, TokenExpired)

\* C4 (as claimed): a fully well-formed response, its message a non-empty
\* string, gives isValid = TRUE and no errors.
C4_WellFormedNonEmptyMessage ==
  (/\ lastCall.called
   /\ WellFormedButMessage(lastCall.at)
   /\ TypeOf(response.body.message) = "string"
   /\ response.body.message.s # <<>>)
  => (Result.isValid /\ Result.errors = <<>>)

\* C4 (amended): a fully well-formed response whose message is a string
\* that is not empty once trimmed gives isValid = TRUE and no errors.
C4_WellFormedNonBlankMessage ==
  (/\ lastCall.called
   /\ WellFormedButMessage(lastCall.at)
   /\ TypeOf(response.body.message) = "string"
   /\ \E i \in 1..Len(response.body.message.s) :
        response.body.message.s[i] \notin WhiteSpace)
  => (Result.isValid /\ Result.errors = <<>>)

\* a call on a fully well-formed response has returned
C4_Witness ==
  /\ lastCall.called
  /\ WellFormedButMessage(lastCall.at)
  /\ TypeOf(response.body.message) = "string"
  /\ \E i \in 1..Len(response.body.message.s) :
       response.body.message.s[i] \notin WhiteSpace
  /\ Result.isValid

\* C5: for each of success, message and data that the body lacks, the
\* validation has isValid = FALSE and an error "Missing required field:"
\* naming that field.
C5_MissingTopLevelField ==
  lastCall.called
  => \A f \in {"success", "message", "data"} :
       ~In(f, response.body)
       => /\ ~Result.isValid
          /\ Contains(Result.errors, Msg("Missing required field: " \o f, <<>>))

\* a call on a response without data has returned
C5_Witness ==
  /\ lastCall.called
  /\ ~In("data", response.body)
  /\ Contains(Result.errors, Msg("Missing required field: data", <<>>))

\* the validation of the same arguments at the time of the latest call,
\* one field of the user replaced by a value
WithUserField(field, value) ==
  validateLoginResponse([response EXCEPT !.user[field] = value],
                        expectedUser, lastCall.at)

\* C6 (as claimed): a user whose is_active is none of 0, 1, true and false
\* gets the is_active warning, and the errors and isValid are the ones the
\* same response gets with is_active = 1.
C6_IsActiveOutsideSetWarns ==
  (/\ lastCall.called
   /\ HasUser
   /\ In("is_active", response.user)
   /\ response.user.is_active \notin {Num(0), Num(1), True, False})
  => /\ Contains(Result.warnings, BadIsActive)
     /\ Result.errors = WithUserField("is_active", Num(1)).errors
     /\ Result.isValid = WithUserField("is_active", Num(1)).isValid

\* C7 (as claimed): where the user object has an id that is not a number
\* the errors hold "User ID should be a number", and where it has an email
\* that is not a string they hold "User email should be a string".
C7_TypeMismatchReported ==
  (lastCall.called /\ HasUser)
  => /\ (In("id", response.user) /\ TypeOf(response.user.id) # "number"
         => Contains(Result.errors, BadUserId))
     /\ (In("email", response.user) /\ TypeOf(response.user.email) # "string"
         => Contains(Result.errors, BadUserEmail))

\* C8 (as claimed): with an expectedUser and a user object, an email other
\* than expectedUser.email gives an error and isValid = FALSE; a name other
\* than expectedUser.name gives a warning, the errors and isValid being the
\* ones the response gets with the expected name.
C8_ExpectedUserMismatch ==
  (lastCall.called /\ HasUser /\ expectedUser.given)
  => /\ (In("email", expectedUser)
         /\ response.user.email # expectedUser.email
         => /\ Contains(Result.errors,
                 Msg("Expected email ${expectedUser.email}, got ${body.data.user.email}",
                     <<expectedUser.email, response.user.email>>))
            /\ ~Result.isValid)
     /\ (In("name", expectedUser)
         /\ In("name", response.user)
         /\ response.user.name # expectedUser.name
         => /\ Contains(Result.warnings,
                 Msg("Expected name ${expectedUser.name}, got ${body.data.user.name}",
                     <<expectedUser.name, response.user.name>>))
            /\ Result.errors = WithUserField("name", expectedUser.name).errors
            /\ Result.isValid = WithUserField("name", expectedUser.name).isValid)

\* C9 (as claimed): where data has an access_token_expire_at, a value that
\* does not parse as a date gives the date format error; a value that
\* parses to a time not after the current time gives the expiry warning
\* and not that error, and leaves a response that is well-formed but for
\* it with isValid = TRUE.
C9_ExpiryChecked ==
  (/\ lastCall.called
   /\ HasData
   /\ In("access_token_expire_at", response.data))
  => /\ (NewDate(response.data.access_token_expire_at).nan
         => Contains(Result.errors, BadExpireFormat))
     /\ (ExpiredAt(lastCall.at)
         => /\ Contains(Result.warnings, TokenExpired)
            /\ ~Contains(Result.errors, BadExpireFormat)
            /\ (/\ response = [WellFormedResponse EXCEPT
                                 !.data.access_token_expire_at =
                                   response.data.access_token_expire_at]
                /\ EmailAgrees
                => Result.isValid))

Maybe(cond, m) == IF cond THEN <<m>> ELSE <<>>

RECURSIVE MissingIn(_, _, _)
MissingIn(fields, obj, prefix) ==
  IF fields = <<>> THEN <<>>
  ELSE Maybe(~In(Head(fields), obj), Msg(prefix \o Head(fields), <<>>))
       \o MissingIn(Tail(fields), obj, prefix)

\* the errors of the defects a response has, in the order of the checks
DefectErrors ==
  Maybe(response.status # 200,
        Msg("Expected status 200, got ${response.status}",
            <<Num(response.status)>>))
  \o MissingIn(<<"success", "message", "data">>, response.body,
               "Missing required field: ")
  \o Maybe(response.body.success # True,
           Msg("Expected success to be true, got ${body.success}",
               <<response.body.success>>))
  \o Maybe(TypeOf(response.body.message) # "string"
             \/ \A i \in 1..Len(response.body.message.s) :
                  response.body.message.s[i] \in WhiteSpace,
           BadMessage)
  \o (IF HasData
      THEN MissingIn(<<"user", "access_token", "access_token_expire_at">>,
                     response.data, "Missing required data field: ")
      ELSE <<>>)
  \o (IF HasUser
      THEN MissingIn(<<"id", "name", "email", "is_active", "created_at",
                       "updated_at">>,
                     response.user, "Missing required user field: ")
           \o Maybe(In("id", response.user)
                      /\ TypeOf(response.user.id) # "number", BadUserId)
           \o Maybe(In("email", response.user)
                      /\ TypeOf(response.user.email) # "string", BadUserEmail)
           \o Maybe(expectedUser.given /\ In("email", expectedUser)
                      /\ response.user.email # expectedUser.email,
                    Msg("Expected email ${expectedUser.email}, got ${body.data.user.email}",
                        <<expectedUser.email, response.user.email>>))
      ELSE <<>>)
  \o Maybe(HasData /\ In("access_token_expire_at", response.data)
             /\ NewDate(response.data.access_token_expire_at).nan,
           BadExpireFormat)

\* the warnings of the defects a response has, in the order of the checks
DefectWarnings(t) ==
  (IF HasUser
   THEN Maybe(In("is_active", response.user)
                /\ response.user.is_active \notin {Num(0), Num(1), True, False},
              BadIsActive)
        \o Maybe(expectedUser.given /\ In("name", expectedUser)
                   /\ response.user.name # expectedUser.name,
                 Msg("Expected name ${expectedUser.name}, got ${body.data.user.name}",
                     <<expectedUser.name, response.user.name>>))
   ELSE <<>>)
  \o Maybe(HasData /\ In("access_token", response.data)
             /\ TypeOf(response.data.access_token) # "string",
           Msg("Access token should be a string", <<>>))
  \o Maybe(HasData /\ In("access_token_expire_at", response.data)
             /\ ExpiredAt(t),
           TokenExpired)

\* C10 (as claimed): every check whose defect the input has puts its error
\* or warning into the one validation returned, in the order of the checks,
\* whatever the checks before it found.
C10_EveryDefectReported ==
  lastCall.called
  => /\ Result.errors = DefectErrors
     /\ Result.warnings = DefectWarnings(lastCall.at)

\* ------------------------------------------------ the claims about the pages
\* the called method has ended
Done == outcome.status \in {"returned", "threw"}

Failed(e) == e.outcome # "ok"

ProbingMethods == {"isVisible", "isElementVisible"}

\* C11: the probing methods isVisible and isElementVisible of BaseComponent
\* and isElementVisible of BasePage never throw: whatever the selector and
\* whatever the engine answers, they return true or false, and they return
\* false whenever the wait for the target failed or timed out.
C11_ProbesReturnBoolean ==
  (Done /\ invoked.meth \in ProbingMethods)
    => /\ outcome.status = "returned"
       /\ outcome.value \in {True, False}
       /\ (\E i \in 1..Len(trace) : Failed(trace[i]))
            => outcome.value = False

\* a probe of a component with a root has timed out, or a probe of a page
\* has failed, and the probe has returned false
C11_Witness ==
  /\ Done
  /\ invoked.meth \in ProbingMethods
  /\ Len(trace) = 1
  /\ \/ invoked.class = "HeaderComponent" /\ trace[1].outcome = "timeout"
     \/ invoked.class = "LoginPage" /\ trace[1].outcome = "error"
  /\ outcome = Returned(False)

NavigatingMethods ==
  {"navigateTo", "navigateToLogin", "navigateToHome", "navigateToContact"}

IsGoto(e) == e.op = "goto"

IsLoadWait(e) ==
  e.op = "waitForLoadState" /\ e.val = Text("networkidle")

\* C12: navigateTo issues the navigation and then waits for the network-idle
\* load state, and so do navigateToLogin, navigateToHome and
\* navigateToContact of the pages: the first engine call is the goto, the
\* next is the load wait and comes only after a goto that succeeded; when the
\* goto or a load wait fails or times out the method throws, so it returns
\* only after a goto and a load wait that both succeeded.
C12_NavigationFailurePropagates ==
  (Done /\ invoked.class \in Pages /\ invoked.meth \in NavigatingMethods)
    => /\ Len(trace) >= 1
       /\ IsGoto(trace[1])
       /\ \A i \in 2..Len(trace) :
            IsLoadWait(trace[i]) /\ ~Failed(trace[i - 1])
       /\ (\E i \in 1..Len(trace) : Failed(trace[i]))
            => outcome.status = "threw"
       /\ outcome.status = "returned" => Len(trace) >= 2

\* the goto of a navigateToLogin has succeeded, the load wait has timed out,
\* and the method has thrown
C12_Witness ==
  /\ Done
  /\ invoked.class = "LoginPage"
  /\ invoked.meth = "navigateToLogin"
  /\ Len(trace) = 2
  /\ trace[1].outcome = "ok"
  /\ trace[2].outcome = "timeout"
  /\ outcome.status = "threw"

\* C13: a failure of the screenshot capture inside takeScreenshot is not
\* passed on to the caller: takeScreenshot returns normally whether or not
\* the capture succeeded.
C13_ScreenshotFailureNotPropagated ==
  (Done /\ invoked.meth = "takeScreenshot") => outcome.status = "returned"

\* the last engine call was the race of the outcome waits
RaceEnded(o) ==
  /\ trace # <<>>
  /\ trace[Len(trace)].op = "race"
  /\ trace[Len(trace)].outcome = o

IsLogin == invoked.class = "LoginPage" /\ invoked.meth = "login"

IsSubmit ==
  invoked.class = "ContactPage" /\ invoked.meth = "submitContactForm"

\* C14: when login of LoginPage or submitContactForm of ContactPage has got
\* through its fill and click steps and no outcome shows up before the
\* outcome waits time out, the method returns normally: it does not throw
\* and it returns no value that tells success from failure.
C14_OutcomeTimeoutSwallowed ==
  (Done /\ (IsLogin \/ IsSubmit) /\ RaceEnded("timeout"))
    => outcome = Returned(Absent)

\* a login with rememberMe has filled both inputs and clicked, no outcome has
\* shown up, and the call has returned
C14_Witness ==
  /\ Done
  /\ IsLogin
  /\ invoked.args[3] = True
  /\ RaceEnded("timeout")
  /\ form["emailInput"] = NewText
  /\ form["passwordInput"] = NewText
  /\ outcome = Returned(Absent)

IsRace(e) == e.op = "race" /\ e.outcome # "error"

\* the kinds of outcome the members of a race wait for
KindsOf(e) == {e.members[j].kind : j \in 1..Len(e.members)}

\* the race ended with the first event of the given kinds, and timed out only
\* when there was none: events holds what happened until the race ended
EndsAtFirstOf(e, kinds) ==
  /\ e.outcome = "ok"
       => /\ e.by \in kinds
          /\ e.by = e.events[Len(e.events)]
          /\ \A j \in 1..(Len(e.events) - 1) : e.events[j] \notin kinds
  /\ e.outcome = "timeout"
       => \A j \in 1..Len(e.events) : e.events[j] \notin kinds

\* C15: login of LoginPage and submitContactForm of ContactPage each race a
\* wait for the success indicator, a wait for the error indicator and a wait
\* for a change of URL, and the waiting ends as soon as the first outcome of
\* any of these three kinds occurs.
C15_RaceOfThreeKinds ==
  (IsLogin \/ IsSubmit)
    => \A i \in 1..Len(trace) :
         IsRace(trace[i])
           => /\ KindsOf(trace[i]) = Kinds
              /\ EndsAtFirstOf(trace[i], Kinds)

\* C15, amended: login races waits for the success indicator, the error
\* indicator and a change of URL and its waiting ends with the first outcome
\* of any of the three kinds; submitContactForm races only the waits for the
\* success indicator and the error indicator, its waiting ends with the
\* first of these two, and a change of URL does not end it.
C15_RaceOfTheWaitsMade ==
  \A i \in 1..Len(trace) :
    IsRace(trace[i])
      => /\ IsLogin
              => /\ KindsOf(trace[i]) = Kinds
                 /\ EndsAtFirstOf(trace[i], Kinds)
         /\ IsSubmit
              => /\ KindsOf(trace[i]) = {"success", "error"}
                 /\ EndsAtFirstOf(trace[i], {"success", "error"})

\* after a submission the URL has changed, the race has gone on, and it has
\* ended with the success indicator
C15_Witness ==
  /\ IsSubmit
  /\ trace # <<>>
  /\ IsRace(trace[Len(trace)])
  /\ trace[Len(trace)].events = <<"url", "success">>
  /\ trace[Len(trace)].by = "success"

IsFillContactForm ==
  invoked.class = "ContactPage" /\ invoked.meth = "fillContactForm"

\* the contactData argument of the call
ContactData == invoked.args[1]

\* the input or checkbox each field of contactData is written to
TargetOf ==
  [firstName |-> "firstNameInput", lastName |-> "lastNameInput",
   email |-> "emailInput", phone |-> "phoneInput",
   subject |-> "subjectInput", message |-> "messageTextarea",
   inquiryType |-> "inquiryTypeSelect", attachment |-> "attachmentInput",
   acceptPrivacy |-> "privacyCheckbox",
   subscribeNewsletter |-> "newsletterCheckbox"]

IsPresent(field) == ~IsUndefined(ContactData[field])

OnlyEmailSet ==
  \A field \in ContactFields : IsPresent(field) <=> field = "email"

\* an engine call on the element of a selector key
Targets(e, key) == e.sel = Selector(key)

Did(op, key) ==
  \E i \in 1..Len(trace) :
    trace[i].op = op /\ Targets(trace[i], key) /\ ~Failed(trace[i])

\* C16: fillContactForm called with a record in which only email is set
\* touches the email input only: every engine call it makes is on the email
\* input, and the first-name, last-name, phone, subject and message inputs,
\* the inquiry-type select, the attachment input and both checkboxes keep
\* the values they had before the call; when it returns, the email input has
\* been cleared and filled with the email given.
C16_OnlyEmailTouched ==
  (IsFillContactForm /\ OnlyEmailSet)
    => /\ \A key \in FormKeys \ {"emailInput"} : form[key] = before[key]
       /\ \A i \in 1..Len(trace) : Targets(trace[i], "emailInput")
       /\ (outcome.status = "returned" /\ Truthy(ContactData.email))
            => /\ Did("clear", "emailInput")
               /\ Did("fill", "emailInput")
               /\ form["emailInput"] = ContactData.email

\* on a form filled in before, a call with only email set has returned: the
\* email input holds the new email, the other inputs what they held
C16_Witness ==
  /\ IsFillContactForm
  /\ OnlyEmailSet
  /\ before = FilledForm
  /\ outcome.status = "returned"
  /\ form = [FilledForm EXCEPT !["emailInput"] = NewText]

\* C17: fillContactForm performs the fill, select or check operation of
\* every field that is present in contactData, whatever its value (an empty
\* string and false included), and of no field that is absent: when it
\* returns, the engine has been called on the element of a field exactly if
\* the field is present.
C17_EveryPresentFieldWritten ==
  (IsFillContactForm /\ outcome.status = "returned")
    => \A field \in ContactFields :
         IsPresent(field)
           <=> \E i \in 1..Len(trace) : Targets(trace[i], TargetOf[field])

\* none of the methods running when the engine call was made is among the
\* given ones
OutsideOf(e, methods) == \A j \in 1..Len(e.via) : e.via[j] \notin methods

\* a failed engine call made outside of the given methods ends the call of
\* the test with an exception, and no engine call comes after it
PropagatesOutsideOf(methods) ==
  Done
    => \A i \in 1..Len(trace) :
         (Failed(trace[i]) /\ OutsideOf(trace[i], methods))
           => outcome.status = "threw" /\ i = Len(trace)

SameAction(e, g) ==
  /\ e.op = g.op
  /\ e.sel = g.sel
  /\ e.val = g.val
  /\ e.via = g.via

\* no engine call that failed is made again
NoRetry ==
  \A i \in 1..(Len(trace) - 1) :
    Failed(trace[i]) => ~SameAction(trace[i], trace[i + 1])

\* C18: in all page and component methods a failed engine call (a timeout or
\* another error) propagates at once to the caller from every method other
\* than the probing methods isVisible and isElementVisible: no other method
\* catches an engine failure, and no method makes a failed call again.
C18_OnlyProbesCatch == PropagatesOutsideOf(ProbingMethods) /\ NoRetry

\* the methods with a try block of their own, the probing methods among them
CatchingMethods ==
  ProbingMethods
  \cup {"isLoginPageLoaded", "isHomePageLoaded", "isContactPageLoaded",
        "login", "submitContactForm", "subscribeToNewsletter",
        "getPageMetadata"}

\* C18, amended: a failed engine call propagates at once to the caller from
\* every method other than isVisible, isElementVisible, isLoginPageLoaded,
\* isHomePageLoaded, isContactPageLoaded, login, submitContactForm,
\* subscribeToNewsletter and getPageMetadata, which catch it (and
\* waitForLoginResult, which throws an error of its own in its place); no
\* method makes a failed call again.
C18_OnlyCatchingMethodsCatch ==
  PropagatesOutsideOf(CatchingMethods) /\ NoRetry

\* the click of clickHeroCta has timed out after a wait that succeeded, and
\* the call has thrown
C18_Witness ==
  /\ Done
  /\ invoked.meth = "clickHeroCta"
  /\ Len(trace) = 2
  /\ trace[2].op = "click"
  /\ trace[2].outcome = "timeout"
  /\ outcome.status = "threw"

OptionalTextMethods ==
  {"getErrorMessage", "getSuccessMessage", "getFieldError",
   "getWelcomeMessage", "getCompanyName", "getCopyrightText", "getUserName",
   "getLogoText"}

\* C19: the methods that read an optional text (getErrorMessage,
\* getSuccessMessage and getFieldError of LoginPage and ContactPage,
\* getWelcomeMessage of HomePage, getCompanyName and getCopyrightText of
\* FooterComponent, getUserName and getLogoText of HeaderComponent) never
\* throw, and return null when the element is absent at any moment of the
\* call: when the visibility probe or the text read does not find it.
C19_AbsentTextIsNull ==
  (Done /\ invoked.meth \in OptionalTextMethods)
    => /\ outcome.status = "returned"
       /\ (\E i \in 1..Len(trace) : Failed(trace[i]))
            => outcome.value = Null

RootedComponents == {c \in Components : IsString(RootOf(c))}

\* the engine call looks up an element, and does so from the page
FromPage(e) == e.scope = "page"

\* C20: every element lookup, wait and action of a method of a component
\* with a root selector is scoped to the root of the component: none of its
\* engine calls, and none of the waits it races, looks up its element from
\* the page.
C20_ScopedToRoot ==
  \A i \in 1..Len(trace) :
    trace[i].class \in RootedComponents
      => /\ ~FromPage(trace[i])
         /\ \A j \in 1..Len(trace[i].members) : ~FromPage(trace[i].members[j])

\* the engine call was handed something that is no selector string
BadSelector(e) == e.scope # "none" /\ ~IsString(e.sel)

\* C21: an undefined (or malformed) selector handed to any method of a page
\* or component ends the call with an error passed on to the caller: it is
\* never turned into a normal return value such as false or null.
C21_BadSelectorPropagates ==
  (Done /\ \E i \in 1..Len(trace) : BadSelector(trace[i]))
    => outcome.status = "threw"

Ended ==
  IF Done THEN Append(calls, [inv |-> invoked, outcome |-> outcome])
  ELSE calls

IsCallOf(c, meth) == c.inv.class = "LoginPage" /\ c.inv.meth = meth

NonEmptyString(v) == IsString(v) /\ v # Empty

IsClearForm ==
  invoked.class \in {"LoginPage", "ContactPage"} /\ invoked.meth = "clearForm"

\* the text inputs of the form of a page
TextInputsOf(class) ==
  IF class = "LoginPage" THEN {"emailInput", "passwordInput"}
  ELSE {"firstNameInput", "lastNameInput", "emailInput", "phoneInput",
        "subjectInput", "messageTextarea"}

\* the checkboxes of the form of a page
CheckboxesOf(class) ==
  IF class = "LoginPage" THEN {"rememberMeCheckbox"}
  ELSE {"privacyCheckbox", "newsletterCheckbox"}

\* clearForm has left the visible ones of the given controls at the value
Cleared(keys, v) == \A k \in keys : k \notin ui.hidden => form[k] = v

\* C24: after any sequence of fill operations on the form of a page,
\* clearForm leaves every text input of the form empty (LoginPage: email and
\* password; ContactPage: first name, last name, email, phone when visible,
\* subject, message) and every visible checkbox of the form unchecked.
C24_ClearFormEmpties ==
  (IsClearForm /\ outcome.status = "returned")
    => /\ Cleared(TextInputsOf(invoked.class), Empty)
       /\ Cleared(CheckboxesOf(invoked.class), False)

\* ------------------------------------------------ the claims about the API
ApiCalled == apiResult.status # "idle"

\* C25: makeApiRequest, and loginApi through it, reports the HTTP error
\* statuses as values: for every answer with a JSON body it returns
\* { status, statusText, headers, body, ok } whatever the status code (400,
\* 401, 422 included), and it throws only when the fetch or the parse of
\* the JSON body fails, with an error whose message starts with
\* "API request failed:".
C25_ErrorStatusIsAValue ==
  ApiCalled
    => LET reply == apiCall.reply
       IN  IF reply.fetched /\ reply.parses
           THEN /\ apiResult.status = "returned"
                /\ DOMAIN apiResult.value
                     = {"status", "statusText", "headers", "body", "ok"}
                /\ apiResult.value.status = reply.status
                /\ apiResult.value.ok = IsOk(reply.status)
           ELSE /\ apiResult.status = "threw"
                /\ Head(apiResult.error) = "API request failed: "

\* loginApi has got a 401 with a JSON body and has returned it as a value
C25_Witness ==
  /\ apiCall.fn = "loginApi"
  /\ apiCall.reply = [fetched |-> TRUE, status |-> 401, parses |-> TRUE]
  /\ apiResult.status = "returned"
  /\ apiResult.value.status = 401
  /\ apiResult.value.ok = FALSE

\* the login button has been clicked
LoginClicked ==
  \E i \in 1..Len(trace) :
    /\ trace[i].op = "click"
    /\ trace[i].sel = Selector("loginButton")
    /\ trace[i].outcome = "ok"

\* C26: login(username, password, true) on a page whose remember-me checkbox
\* is visible and unchecked has the checkbox checked by the time the login
\* button is clicked; and every selector a method of LoginPage takes from
\* this.selectors (rememberMeCheckbox, googleLoginButton and
\* facebookLoginButton among them) is declared in the selector table, so no
\* such method hands the engine an undefined selector.
C26_RememberMeCheckedBeforeClick ==
  /\ (IsLogin /\ invoked.args[3] = True
              /\ before["rememberMeCheckbox"] = False /\ LoginClicked)
       => form["rememberMeCheckbox"] = True
  /\ (invoked.class = "LoginPage" /\ invoked.meth \in DOMAIN LoginPage)
       => \A i \in 1..Len(trace) : ~BadSelector(trace[i])

FooterLinkActions ==
  {"navigateToHome", "navigateToAbout", "navigateToServices",
   "navigateToContact", "clickPrivacyPolicy", "clickTermsOfService",
   "clickSocialLink", "subscribeToNewsletter", "scrollToFooter"}

\* the call ended because this has no method of the name called
NoSuchMethod == outcome.status = "threw" /\ outcome.error = "TypeError"

\* C27: each link action of FooterComponent (navigateToHome, navigateToAbout,
\* navigateToServices, navigateToContact, clickPrivacyPolicy,
\* clickTermsOfService, clickSocialLink, subscribeToNewsletter,
\* scrollToFooter) first scrolls the footer into view, and when its target
\* is not visible it ends without a click and without an exception; every
\* method a component calls on itself is defined by the component or by
\* its base class.
C27_FooterActionsScrollFirst ==
  /\ (Done /\ invoked.class \in Components) => ~NoSuchMethod
  /\ (Done /\ invoked.class = "FooterComponent"
           /\ invoked.meth \in FooterLinkActions)
       => /\ trace # <<>>
          /\ trace[1].op = "scrollIntoViewIfNeeded"
          /\ trace[1].sel = Selector("footer")
          /\ (\A i \in 1..Len(trace) : trace[i].op # "click")
               => outcome.status = "returned"

\* ------------------------- the claims about a test on a page that holds still
CheckboxSetters == {"checkPrivacyPolicy", "checkNewsletter"}

IsSetter ==
  invoked.class = "ContactPage" /\ invoked.meth \in CheckboxSetters

\* the checkbox a setter sets
BoxOf(meth) ==
  IF meth = "checkPrivacyPolicy" THEN "privacyCheckbox"
  ELSE "newsletterCheckbox"

\* the state asked for: check = true when the argument is left out
Wanted(inv) == IF IsUndefined(inv.args[1]) THEN True ELSE inv.args[1]

\* a check or uncheck action has been issued in this call
Toggled == \E i \in 1..Len(trace) : trace[i].op \in {"check", "uncheck"}

\* the call before this one was the same call
Repeated == calls # <<>> /\ calls[Len(calls)].inv = invoked

\* C28: checkPrivacyPolicy(c) and checkNewsletter(c) of ContactPage are
\* idempotent setters.  When the checkbox is visible the call returns with
\* the checkbox in state c, it issues a check or uncheck action only if the
\* state differed from c, and a second call with the same c issues no
\* action; when the checkbox is not visible the call changes nothing and
\* does not throw.
C28_CheckboxSettersIdempotent ==
  (Done /\ IsSetter)
    => LET key == BoxOf(invoked.meth)
           c == Wanted(invoked)
       IN  /\ outcome.status = "returned"
           /\ IF key \notin ui.hidden
              THEN /\ form[key] = c
                   /\ Toggled => before[key] # c
                   /\ Repeated => ~Toggled
              ELSE ~Toggled
           /\ \A k \in FormKeys \ {key} : form[k] = before[k]
           /\ ~Toggled => form = before

\* a second checkPrivacyPolicy(true) on a visible checkbox has returned
\* without an action, the checkbox checked
C28_Witness ==
  /\ Done
  /\ IsSetter
  /\ invoked.meth = "checkPrivacyPolicy"
  /\ invoked.args = <<True>>
  /\ Repeated
  /\ "privacyCheckbox" \notin ui.hidden
  /\ ~Toggled
  /\ Len(trace) = 2
  /\ form["privacyCheckbox"] = True
  /\ outcome.status = "returned"

\* ------------------------------------------- the validator and its callers
\* C29: whenever validateLoginResponse returns isValid = true, the response
\* has status 200, success === true, a message that is a non-empty string,
\* and a data object with user, access_token and access_token_expire_at in
\* it, so that extractUserData and extractAccessToken find a data object in
\* the same response.
C29_ValidHasDataObject ==
  (lastCall.called /\ Result.isValid)
    => /\ response.status = ExpectedStatus
       /\ response.body.success = True
       /\ response.body.message.t = "string"
       /\ Trim(response.body.message.s) # <<>>
       /\ response.body.data = Obj
       /\ \A i \in 1..Len(dataRequiredFields) :
            In(dataRequiredFields[i], response.data)

\* the headers and the body handed to request.fetch
SentHeaders == Get(apiResult.sent.options, "headers")
SentData == Get(apiResult.sent.options, "data")

\* the headers the caller supplied, none when options has no headers
GivenHeaders == Props(Get(apiCall.options, "headers"))

\* C30: every request makeApiRequest issues carries the default headers
\* Content-Type: application/json and Accept: application/json unless the
\* caller overrides those very header names: the headers of options.headers
\* are merged with the defaults, never put in their place; and for POST and
\* PUT the body sent is the JSON serialisation of options.data.
C30_DefaultHeadersMerged ==
  ApiCalled
    => /\ \A name \in DOMAIN DefaultHeaders :
            /\ name \in DOMAIN SentHeaders
            /\ SentHeaders[name]
                 = IF name \in DOMAIN GivenHeaders THEN GivenHeaders[name]
                   ELSE DefaultHeaders[name]
       /\ \A name \in DOMAIN GivenHeaders :
            /\ name \in DOMAIN SentHeaders
            /\ SentHeaders[name] = GivenHeaders[name]
       /\ ("data" \in DOMAIN apiCall.options
           /\ ToUpperCase(apiCall.method) \in {"POST", "PUT"})
            => SentData = JSONstringify(apiCall.options["data"])

====
